---- MODULE Spec2Model ----
(***************************************************************************)
(* The packet-data core of the telephony daemon (src/src/gprs.c): the      *)
(* attach state machine of struct ofono_gprs, the primary contexts         *)
(* (struct pri_context), the context-driver bindings (struct               *)
(* ofono_gprs_context) and the driver requests in flight.                  *)
(*                                                                         *)
(* Every handler of gprs.c is an operator from a program state record to   *)
(* a program state record, so that a handler calling another handler is    *)
(* operator application; an action applies one handler to the current      *)
(* state and commits the result.                                           *)
(***************************************************************************)
EXTENDS Integers, Sequences, FiniteSets, TLC

\* ---------------------------------------------------------------- bounds
\* used_pids holds 1 .. MaxContexts (MAX_CONTEXTS, scaled down)
MaxContexts == 2
\* used_cids holds 1 .. MaxCid (the range given to ofono_gprs_set_cid_range)
MaxCid == 2
\* number of context-driver bindings registered with ofono_gprs_add_context
NumGc == 2
\* driver attach requests (set_attached, attached_status) the transport queues
MaxAttReq == 2
\* per-context requests (activate, deactivate, read_settings) the bindings hold
MaxReqs == 2

Pids == 1 .. MaxContexts
Cids == 1 .. MaxCid
Gcs  == 1 .. NumGc

\* ------------------------------------------------------- program constants
\* registration states for which the packet service counts as registered
RegisteredSet ==
  {"registered", "registered-sms-eutran", "roaming", "roaming-sms-eutran"}

\* the status values the environment reports in this model
StatusInputs == {"not-registered", "registered", "roaming"}
NetregInputs == {"not-registered", "registered", "roaming"}
TechInputs   == {"gsm", "eutran"}
\* APNs: sequences of characters, so that the prefix test is a real one
ApnInputs    == {<<"a">>, <<"a", "b">>}

NoCtx == [live |-> FALSE, active |-> FALSE, type |-> "none", proto |-> "ip",
          apn |-> <<>>, cid |-> 0, context_driver |-> 0, pending |-> "none"]

VARIABLES
  gprs,      \* struct ofono_gprs (the scalar fields and the two uintsets)
  contexts,  \* gprs->contexts: the list of context ids, in insertion order
  pri,       \* the pri_context objects, by id
  gc,        \* the ofono_gprs_context bindings, by index in context_drivers
  reqs,      \* per-context driver requests in flight
  attq,      \* attach requests in flight at the gprs driver, oldest first
  out,       \* bus replies and signals emitted by the last handler
  crashed    \* the process dereferenced NULL or freed memory and has died

vars == <<gprs, contexts, pri, gc, reqs, attq, out, crashed>>

\* The program state handed from handler to handler.
Cur == [g |-> gprs, list |-> contexts, pri |-> pri, gc |-> gc, reqs |-> reqs,
        attq |-> attq, out |-> <<>>, crash |-> FALSE, over |-> FALSE]

Commit(s) ==
  /\ ~s.over
  /\ IF s.crash
     THEN /\ crashed' = TRUE
          /\ UNCHANGED <<gprs, contexts, pri, gc, reqs, attq>>
          /\ out' = <<>>
     ELSE /\ gprs' = s.g
          /\ contexts' = s.list
          /\ pri' = s.pri
          /\ gc' = s.gc
          /\ reqs' = s.reqs
          /\ attq' = s.attq
          /\ out' = s.out
          /\ crashed' = FALSE

Emit(s, o) == [s EXCEPT !.out = Append(@, o)]

Signal(s, obj, prop, val) == Emit(s, <<"signal", obj, prop, val>>)

Reply(s, req, res) == Emit(s, <<"reply", req, res>>)

\* ------------------------------------------------------------- l_uintset
SetMin(S) == CHOOSE x \in S : \A y \in S : x <= y
SetMax(S) == CHOOSE x \in S : \A y \in S : x >= y

l_uintset_find_unused_min(used, lo, hi) ==
  IF (lo .. hi) \ used = {} THEN hi + 1 ELSE SetMin((lo .. hi) \ used)

l_uintset_find_unused(used, lo, hi, start) ==
  IF start < lo \/ start > hi THEN hi + 1
  ELSE IF (start .. hi) \ used # {} THEN SetMin((start .. hi) \ used)
  ELSE l_uintset_find_unused_min(used, lo, hi)

\* ------------------------------------------------- bindings and contexts
\* a search that does not look at the bindings' types
find_avail_gprs_context_any_type(s, p) ==
  LET ok == {d \in Gcs : /\ s.gc[d].reg
                         /\ ~s.gc[d].inuse
                         /\ s.gc[d].activate /\ s.gc[d].deactivate}
  IN IF ok = {} THEN 0 ELSE SetMin(ok)

find_avail_gprs_context(s, p) ==
  LET ok == {d \in Gcs : /\ s.gc[d].reg
                         /\ ~s.gc[d].inuse
                         /\ s.gc[d].activate /\ s.gc[d].deactivate
                         /\ s.gc[d].type \in {"any", s.pri[p].type}}
  IN IF ok = {} THEN 0 ELSE SetMin(ok)

\* assign_context returns the new state and whether it succeeded
assign_context(s, p, use_cid) ==
  LET cid == IF use_cid = 0
             THEN l_uintset_find_unused_min(s.g.used_cids, 1, MaxCid)
             ELSE use_cid
      d == find_avail_gprs_context(s, p)
      proto == s.pri[p].proto
  IN IF cid > MaxCid \/ d = 0
     THEN [ok |-> FALSE, s |-> s]
     ELSE [ok |-> TRUE,
           s |-> [s EXCEPT !.g.used_cids = @ \cup {cid},
                           !.pri[p].cid = cid,
                           !.pri[p].context_driver = d,
                           !.gc[d].inuse = TRUE,
                           !.gc[d].ipv4 = @ \/ proto \in {"ip", "dual"},
                           !.gc[d].ipv6 = @ \/ proto \in {"ipv6", "dual"}]]

\* a release that leaves the context's active flag alone
release_context_keeps_active(s, p) ==
  LET d == s.pri[p].context_driver
  IN IF d = 0 THEN s
     ELSE [s EXCEPT !.g.used_cids = @ \ {s.pri[p].cid},
                    !.pri[p].cid = 0,
                    !.gc[d].inuse = FALSE,
                    !.pri[p].context_driver = 0]

release_context(s, p) ==
  LET d == s.pri[p].context_driver
  IN IF d = 0 THEN s
     ELSE [s EXCEPT !.g.used_cids = @ \ {s.pri[p].cid},
                    !.pri[p].cid = 0,
                    !.gc[d].inuse = FALSE,
                    !.pri[p].context_driver = 0,
                    !.pri[p].active = FALSE]

context_settings_free(s, d) ==
  [s EXCEPT !.gc[d].ipv4 = FALSE, !.gc[d].ipv6 = FALSE]

pri_reset_context_settings(s, p) ==
  LET d == s.pri[p].context_driver
  IN IF d = 0 THEN s ELSE context_settings_free(s, d)

pri_context_signal_active(s, p) ==
  Signal(s, <<"context", p>>, "Active", s.pri[p].active)

have_active_contexts(s) ==
  \E i \in 1 .. Len(s.list) : s.pri[s.list[i]].active

have_detachable_active_contexts(s) ==
  \E i \in 1 .. Len(s.list) :
    LET c == s.pri[s.list[i]]
    IN c.context_driver # 0 /\ s.gc[c.context_driver].detach_shutdown /\ c.active

have_read_settings(s) ==
  \E d \in Gcs : s.gc[d].reg /\ s.gc[d].read_settings

RECURSIVE detach_from(_, _)
detach_from(s, i) ==
  IF i > Len(s.list) THEN s
  ELSE LET p == s.list[i]
       IN IF ~s.pri[p].active \/ s.pri[p].pending # "none"
          THEN detach_from(s, i + 1)
          ELSE detach_from(
                 pri_context_signal_active(
                   release_context(pri_reset_context_settings(s, p), p), p),
                 i + 1)

detach_active_contexts(s) == detach_from(s, 1)

\* ------------------------------------------------- attach state machine
on_lte(s) ==
  s.g.netreg /\ s.g.technology = "eutran" /\ have_read_settings(s)

\* a setter that changes attached without telling the bus
gprs_set_attached_property_silent(s, attached) ==
  IF s.g.attached = attached THEN s
  ELSE [s EXCEPT !.g.attached = attached]

gprs_set_attached_property(s, attached) ==
  IF s.g.attached = attached THEN s
  ELSE Signal([s EXCEPT !.g.attached = attached], "manager", "Attached", attached)

\* an update that takes driver_attached alone for the attached state
gprs_attached_update_no_status(s) ==
  LET attached == IF on_lte(s) THEN have_active_contexts(s)
                  ELSE s.g.driver_attached
  IN IF attached = s.g.attached THEN s
     ELSE gprs_set_attached_property(
            IF attached THEN s ELSE [s EXCEPT !.g.bearer = -1], attached)

gprs_attached_update(s) ==
  LET attached == IF on_lte(s) THEN have_active_contexts(s)
                  ELSE s.g.driver_attached /\ s.g.status \in RegisteredSet
  IN IF attached = s.g.attached THEN s
     ELSE IF have_detachable_active_contexts(s) /\ ~on_lte(s)
          THEN LET s1 == detach_active_contexts(s)
               IN IF attached
                  THEN [s1 EXCEPT !.g.flags = @ \cup {"ATTACHED_UPDATE"}]
                  ELSE gprs_set_attached_property(
                         [s1 EXCEPT !.g.bearer = -1], attached)
          ELSE gprs_set_attached_property(
                 IF attached THEN s ELSE [s EXCEPT !.g.bearer = -1],
                 attached)

\* the driver's set_attached: the request joins the transport's queue
\* the AT driver's set_attached: AT+CGATT is queued at the chat, which
\* accepts it, and the driver notes what it asked for
at_gprs_set_attached(s, v) ==
  IF Len(s.attq) >= MaxAttReq THEN [s EXCEPT !.over = TRUE]
  ELSE [s EXCEPT !.attq = Append(@, [kind |-> "set_attached", val |-> v]),
                 !.g.driver_data.attached = v]

set_attached(s, v) ==
  IF s.g.driver_data.vendor # "none" THEN at_gprs_set_attached(s, v)
  ELSE IF Len(s.attq) >= MaxAttReq THEN [s EXCEPT !.over = TRUE]
  ELSE [s EXCEPT !.attq = Append(@, [kind |-> "set_attached", val |-> v])]

\* the driver's attached_status query
attached_status(s) ==
  IF Len(s.attq) >= MaxAttReq THEN [s EXCEPT !.over = TRUE]
  ELSE [s EXCEPT !.attq = Append(@, [kind |-> "attached_status", val |-> FALSE])]

WantAttach(g) ==
  /\ \/ g.netreg_status \in {"registered", "registered-sms-eutran"}
     \/ g.roaming_allowed /\ g.netreg_status \in {"roaming", "roaming-sms-eutran"}
  /\ g.powered

\* an update that asks for the attach whether the manager is powered or not
gprs_netreg_update_unpowered(s) ==
  LET attach ==
        \/ s.g.netreg_status \in {"registered", "registered-sms-eutran"}
        \/ s.g.roaming_allowed /\ s.g.netreg_status \in {"roaming", "roaming-sms-eutran"}
  IN IF s.g.netreg_status = "unset" THEN s
     ELSE IF on_lte(s) THEN gprs_attached_update(s)
     ELSE IF s.g.driver_attached = attach THEN s
     ELSE IF "ATTACHING" \in s.g.flags
          THEN [s EXCEPT !.g.flags = @ \cup {"RECHECK"}]
          ELSE set_attached([s EXCEPT !.g.flags = @ \cup {"ATTACHING"},
                                      !.g.driver_attached = attach], attach)

\* an update that treats LTE as every other technology
gprs_netreg_update_no_lte(s) ==
  LET attach == WantAttach(s.g)
  IN IF s.g.netreg_status = "unset" THEN s
     ELSE IF s.g.driver_attached = attach THEN s
     ELSE IF "ATTACHING" \in s.g.flags
          THEN [s EXCEPT !.g.flags = @ \cup {"RECHECK"}]
          ELSE set_attached([s EXCEPT !.g.flags = @ \cup {"ATTACHING"},
                                      !.g.driver_attached = attach], attach)

gprs_netreg_update(s) ==
  LET attach == WantAttach(s.g)
  IN IF s.g.netreg_status = "unset" THEN s
     ELSE IF on_lte(s) THEN gprs_attached_update(s)
     ELSE IF s.g.driver_attached = attach THEN s
     ELSE IF "ATTACHING" \in s.g.flags
          THEN [s EXCEPT !.g.flags = @ \cup {"RECHECK"}]
          ELSE set_attached([s EXCEPT !.g.flags = @ \cup {"ATTACHING"},
                                      !.g.driver_attached = attach], attach)

ofono_gprs_detached_notify(s) ==
  IF "ATTACHING" \in s.g.flags THEN s
  ELSE gprs_attached_update([s EXCEPT !.g.driver_attached = FALSE])

ofono_gprs_status_notify(s, status) ==
  LET s1 == [s EXCEPT !.g.status = status]
  IN IF "ATTACHING" \in s1.g.flags THEN s1
     ELSE IF status \notin RegisteredSet THEN ofono_gprs_detached_notify(s1)
     ELSE IF ~s1.g.powered \/ (~s1.g.roaming_allowed /\ status = "roaming")
          THEN set_attached([s1 EXCEPT !.g.flags = @ \cup {"ATTACHING"}], FALSE)
          ELSE gprs_attached_update([s1 EXCEPT !.g.driver_attached = TRUE])

\* a completion that clears RECHECK and re-runs nothing
registration_status_cb_no_rerun(s, error, status) ==
  LET s1 == [s EXCEPT !.g.flags = @ \ {"ATTACHING"}]
      s2 == IF ~error THEN ofono_gprs_status_notify(s1, status)
            ELSE gprs_attached_update(s1)
  IN [s2 EXCEPT !.g.flags = @ \ {"RECHECK"}]

\* error = TRUE: the status query failed (status is then not looked at)
registration_status_cb(s, error, status) ==
  LET s1 == [s EXCEPT !.g.flags = @ \ {"ATTACHING"}]
      s2 == IF ~error THEN ofono_gprs_status_notify(s1, status)
            ELSE gprs_attached_update(s1)
  IN IF "RECHECK" \in s2.g.flags
     THEN gprs_netreg_update([s2 EXCEPT !.g.flags = @ \ {"RECHECK"}])
     ELSE s2

\* a completion that, without attached_status, leaves attached as it is
gprs_attach_callback_keeps_attached(s, error) ==
  LET s1 == IF error THEN [s EXCEPT !.g.driver_attached = ~@] ELSE s
  IN IF ~s1.g.has_attached_status
     THEN [s1 EXCEPT !.g.flags = @ \ {"ATTACHING", "RECHECK"}]
     ELSE attached_status(s1)

gprs_attach_callback(s, error) ==
  LET s1 == IF error THEN [s EXCEPT !.g.driver_attached = ~@] ELSE s
  IN IF ~s1.g.has_attached_status
     THEN registration_status_cb(s1, TRUE, "unset")
     ELSE attached_status(s1)

gprs_netreg_removed(s) ==
  gprs_attached_update(
    [s EXCEPT !.g.netreg = FALSE,
              !.g.flags = @ \ {"RECHECK", "ATTACHING"},
              !.g.netreg_status = "not-registered",
              !.g.driver_attached = FALSE])

\* netreg_watch, registered branch: st is the status the netreg atom holds
netreg_watch(s, st, tech) ==
  gprs_netreg_update(
    [s EXCEPT !.g.netreg = TRUE,
              !.g.technology = tech,
              !.g.netreg_status = IF st # "unknown" THEN st ELSE @])

netreg_status_changed(s, st, tech) ==
  gprs_netreg_update([s EXCEPT !.g.netreg_status = st, !.g.technology = tech])

\* ------------------------------------------------------ suspend / resume
\* an update that signals Suspended whatever attached is
update_suspended_property_signals(s, suspended) ==
  LET s1 == [s EXCEPT !.g.suspend_timeout = FALSE]
  IN IF s1.g.suspended = suspended THEN s1
     ELSE Signal([s1 EXCEPT !.g.suspended = suspended],
                 "manager", "Suspended", suspended)

\* an update that leaves an armed timer armed
update_suspended_property_keeps_timer(s, suspended) ==
  IF s.g.suspended = suspended THEN s
  ELSE LET s2 == [s EXCEPT !.g.suspended = suspended]
       IN IF s2.g.attached
          THEN Signal(s2, "manager", "Suspended", suspended)
          ELSE s2

update_suspended_property(s, suspended) ==
  LET s1 == [s EXCEPT !.g.suspend_timeout = FALSE]
  IN IF s1.g.suspended = suspended THEN s1
     ELSE LET s2 == [s1 EXCEPT !.g.suspended = suspended]
          IN IF s2.g.attached
             THEN Signal(s2, "manager", "Suspended", suspended)
             ELSE s2

suspend_timeout(s) ==
  update_suspended_property([s EXCEPT !.g.suspend_timeout = FALSE], TRUE)

ofono_gprs_suspend_notify(s, cause) ==
  IF cause \in {"detached", "call", "no-coverage"}
  THEN update_suspended_property(s, TRUE)
  ELSE IF cause \in {"signalling", "unknown"}
  THEN [s EXCEPT !.g.suspend_timeout = TRUE]
  ELSE s

ofono_gprs_resume_notify(s) == update_suspended_property(s, FALSE)

\* ------------------------------------------- the AT driver's notifications
Vendors == {"generic", "telit"}
\* +CGREG: <stat>, by the status it parses to; "unparsed" is a line
\* at_util_parse_reg_unsolicited rejects
CgregInputs == {"not-registered", "registered", "unparsed"}
\* +CGEV: events; the PDN events are the auto-activation of CidActivated
CgevInputs == {"NW DETACH", "ME DETACH", "OTHER"}

\* the silent re-attach: AT+CGATT=1 with no callback
Reattach == <<"at", "AT+CGATT=1">>

\* a handler that re-attaches at every +CGREG: 0
cgreg_notify_every_time(s, status) ==
  IF status = "unparsed" THEN s
  ELSE IF s.g.driver_data.vendor = "telit"
          /\ s.g.driver_data.attached /\ status = "not-registered"
  THEN Emit([s EXCEPT !.g.driver_data.telit_try_reattach = TRUE], Reattach)
  ELSE ofono_gprs_status_notify(
         IF s.g.driver_data.vendor = "telit"
         THEN [s EXCEPT !.g.driver_data.telit_try_reattach = FALSE] ELSE s,
         status)

cgreg_notify(s, status) ==
  IF status = "unparsed" THEN s
  ELSE IF s.g.driver_data.vendor = "telit"
          /\ s.g.driver_data.attached /\ status = "not-registered"
          /\ ~s.g.driver_data.telit_try_reattach
  THEN Emit([s EXCEPT !.g.driver_data.telit_try_reattach = TRUE], Reattach)
  ELSE ofono_gprs_status_notify(
         IF s.g.driver_data.vendor = "telit"
         THEN [s EXCEPT !.g.driver_data.telit_try_reattach = FALSE] ELSE s,
         status)

\* the PDN events of +CGEV, and the cid sscanf reads from them
PdnAct   == {"ME PDN ACT 1", "ME PDN ACT 2"}
PdnDeact == {"ME PDN DEACT 1", "ME PDN DEACT 2"}
PdnCid(event) == IF event \in {"ME PDN ACT 1", "ME PDN DEACT 1"} THEN 1 ELSE 2
MaxReads == 2

\* g_at_chat_send of AT+CGDCONT?: the chat answers its commands in order
cgdcont_read(s) ==
  IF s.g.driver_data.cgdcont >= MaxReads THEN [s EXCEPT !.over = TRUE]
  ELSE [s EXCEPT !.g.driver_data.cgdcont = @ + 1]

cgev_notify(s, event) ==
  IF event \in {"NW DETACH", "ME DETACH"}
  THEN IF s.g.driver_data.vendor = "telit" /\ s.g.driver_data.telit_try_reattach
       THEN s
       ELSE ofono_gprs_detached_notify([s EXCEPT !.g.driver_data.attached = FALSE])
  ELSE IF event \in PdnAct
  THEN cgdcont_read(
         [s EXCEPT !.g.driver_data.last_auto_context_id = PdnCid(event)])
  ELSE IF event \in PdnDeact
  THEN IF s.g.driver_data.last_auto_context_id = PdnCid(event)
       THEN [s EXCEPT !.g.driver_data.last_auto_context_id = -1] ELSE s
  ELSE s

\* what the modem holds activated after it sent event
modem_pdn(s, event) ==
  IF event \in PdnAct
  THEN [s EXCEPT !.g.driver_data.pdn = @ \cup {PdnCid(event)}]
  ELSE IF event \in PdnDeact
  THEN [s EXCEPT !.g.driver_data.pdn = @ \ {PdnCid(event)}]
  ELSE s

\* ---------------------------------------------- bearer and GetProperties
\* the bearers the driver reports in this model: none and GPRS
BearerInputs == {0, 1}

packet_bearer_to_string(bearer) ==
  CASE bearer = 0 -> "none"
    [] bearer = 1 -> "gprs"
    [] bearer = 2 -> "edge"
    [] bearer = 3 -> "umts"
    [] bearer = 4 -> "hsupa"
    [] bearer = 5 -> "hsdpa"
    [] bearer = 6 -> "hspa"
    [] bearer = 7 -> "lte"
    [] OTHER -> ""

ofono_gprs_bearer_notify(s, bearer) ==
  IF s.g.bearer = bearer THEN s
  ELSE Signal([s EXCEPT !.g.bearer = bearer], "manager", "Bearer",
              packet_bearer_to_string(bearer))

\* the number of a vendor's bearer line: every code a modem may send,
\* known to the dialect or not
CodeInputs == -1 .. 10
BearerVendors == {"huawei", "telit", "simcom", "ublox", "generic"}

huawei_mode_notify(s, submode) ==
  LET bearer == CASE submode \in {1, 2} -> 1
                  [] submode = 3 -> 2
                  [] submode = 4 -> 3
                  [] submode = 5 -> 5
                  [] submode = 6 -> 4
                  [] submode \in {7, 9} -> 6
                  [] OTHER -> 0
  IN ofono_gprs_bearer_notify(s, bearer)

huawei_hcsq_notify(s, mode) ==
  IF mode = "LTE" THEN ofono_gprs_bearer_notify(s, 7) ELSE s

telit_mode_notify(s, nt) ==
  LET bearer == CASE nt = 0 -> 1
                  [] nt = 1 -> 2
                  [] nt = 2 -> 3
                  [] nt = 3 -> 5
                  [] nt = 4 -> 7
                  [] OTHER -> 0
  IN ofono_gprs_bearer_notify(s, bearer)

simcom_mode_notify(s, stat) ==
  LET bearer == CASE stat = 0 -> 0
                  [] stat \in {1, 2} -> 1
                  [] stat = 3 -> 2
                  [] stat = 4 -> 3
                  [] stat = 5 -> 5
                  [] stat = 6 -> 4
                  [] stat = 7 -> 6
                  [] stat = 8 -> 7
                  [] OTHER -> 0
  IN ofono_gprs_bearer_notify(s, bearer)

ublox_ureg_notify(s, state) ==
  LET bearer == CASE state = 4 -> 5
                  [] state = 5 -> 4
                  [] state = 8 -> 1
                  [] state = 9 -> 2
                  [] OTHER -> state
  IN ofono_gprs_bearer_notify(s, bearer)

cpsb_notify(s, bearer) == ofono_gprs_bearer_notify(s, bearer)

\* the handler gprs_initialized registers for the vendor's bearer line
mode_notify(s, code) ==
  CASE s.g.driver_data.vendor = "huawei" -> huawei_mode_notify(s, code)
    [] s.g.driver_data.vendor = "telit" -> telit_mode_notify(s, code)
    [] s.g.driver_data.vendor = "simcom" -> simcom_mode_notify(s, code)
    [] s.g.driver_data.vendor = "ublox" -> ublox_ureg_notify(s, code)
    [] OTHER -> cpsb_notify(s, code)

\* the dictionary of the reply, in the order it is filled
gprs_get_properties(s) ==
  <<<<"Attached", s.g.attached>>>>
  \o (IF s.g.bearer # -1
      THEN <<<<"Bearer", packet_bearer_to_string(s.g.bearer)>>>> ELSE <<>>)
  \o <<<<"RoamingAllowed", s.g.roaming_allowed>>, <<"Powered", s.g.powered>>>>
  \o (IF s.g.attached THEN <<<<"Suspended", s.g.suspended>>>> ELSE <<>>)

\* A request in flight at a binding. ctx is the pri_context the callback was
\* given; stale says that object has been freed since, and mgc/mcid are then
\* what the freed memory holds as context_driver and cid.
Req(kind, p, d) ==
  [kind |-> kind, ctx |-> p, gc |-> d, stale |-> FALSE, mgc |-> 0, mcid |-> 0]

\* a driver operation is called: the request is in flight until its callback
Call(s, r) ==
  IF Cardinality(s.reqs) >= MaxReqs THEN [s EXCEPT !.over = TRUE]
  ELSE [s EXCEPT !.reqs = @ \cup {r}]

Issue(s, kind, p) ==
  Call(s, Req(kind, p, s.pri[p].context_driver))

\* g_free of a pri_context: requests holding the pointer now dangle
FreeCtx(s, p) ==
  [s EXCEPT !.pri[p] = NoCtx,
            !.reqs = {IF r.ctx = p /\ ~r.stale
                      THEN [r EXCEPT !.stale = TRUE,
                                     !.mgc = s.pri[p].context_driver,
                                     !.mcid = s.pri[p].cid]
                      ELSE r : r \in @}]

Crash(s) == [s EXCEPT !.crash = TRUE]

\* ----------------------------------------------- per-context callbacks
pri_activate_callback(s, p, error) ==
  LET d == s.pri[p].context_driver
  IN IF error
     THEN LET s1 == Reply([s EXCEPT !.pri[p].pending = "none"],
                          <<"context", p>>, "failed")
          IN IF d = 0 THEN Crash(s1)
             ELSE release_context(context_settings_free(s1, d), p)
     ELSE LET s1 == Reply([s EXCEPT !.pri[p].active = TRUE,
                                    !.pri[p].pending = "none"],
                          <<"context", p>>, "ok")
          IN IF d = 0 THEN Crash(s1)
             ELSE pri_context_signal_active(s1, p)

pri_deactivate_callback(s, p, error) ==
  IF error
  THEN Reply([s EXCEPT !.pri[p].pending = "none"], <<"context", p>>, "failed")
  ELSE LET s1 == Reply([s EXCEPT !.pri[p].pending = "none"],
                       <<"context", p>>, "ok")
           s2 == release_context(pri_reset_context_settings(s1, p), p)
           s3 == pri_context_signal_active(s2, p)
       IN IF "ATTACHED_UPDATE" \in s3.g.flags
          THEN gprs_attached_update(
                 [s3 EXCEPT !.g.flags = @ \ {"ATTACHED_UPDATE"}])
          ELSE s3

pri_read_settings_callback(s, p, error) ==
  LET d == s.pri[p].context_driver
  IN IF d = 0 THEN Crash(s)
     ELSE IF error
     THEN release_context(context_settings_free(s, d), p)
     ELSE pri_context_signal_active(
            gprs_set_attached_property([s EXCEPT !.pri[p].active = TRUE], TRUE),
            p)

\* pri_read_settings_callback run on a freed pri_context whose memory still
\* holds the old field values (r.mgc, r.mcid); its writes to the freed
\* object are seen by the other requests that dangle on it
pri_read_settings_callback_freed(s, r, error) ==
  IF r.mgc = 0 THEN Crash(s)
  ELSE IF error
  THEN [context_settings_free(s, r.mgc) EXCEPT
          !.g.used_cids = @ \ {r.mcid},
          !.gc[r.mgc].inuse = FALSE,
          !.reqs = {IF q.stale /\ q.ctx = r.ctx
                    THEN [q EXCEPT !.mgc = 0, !.mcid = 0] ELSE q : q \in @}]
  ELSE Signal(gprs_set_attached_property(s, TRUE),
              <<"freed", r.ctx>>, "Active", TRUE)

\* ------------------------------------------------ per-context SetProperty
\* an Active request that does not look at ATTACHING
pri_set_property_active_no_attaching(s, p, value) ==
  LET msg == <<"pri_set_property", p>>
  IN IF s.g.pending # "none" THEN Reply(s, msg, "busy")
     ELSE IF s.pri[p].pending # "none" THEN Reply(s, msg, "busy")
     ELSE IF s.pri[p].active = value THEN Reply(s, msg, "ok")
     ELSE IF value /\ ~s.g.attached THEN Reply(s, msg, "not_attached")
     ELSE IF value
     THEN LET a == assign_context(s, p, 0)
          IN IF ~a.ok THEN Reply(s, msg, "not_implemented")
             ELSE Issue([a.s EXCEPT !.pri[p].pending = "activate"],
                        "activate", p)
     ELSE Issue([s EXCEPT !.pri[p].pending = "deactivate"], "deactivate", p)

\* an Active request that looks at the context's pending request last
pri_set_property_active_late_busy(s, p, value) ==
  LET msg == <<"pri_set_property", p>>
  IN IF s.g.pending # "none" THEN Reply(s, msg, "busy")
     ELSE IF s.pri[p].active = value THEN Reply(s, msg, "ok")
     ELSE IF value /\ ~s.g.attached THEN Reply(s, msg, "not_attached")
     ELSE IF "ATTACHING" \in s.g.flags THEN Reply(s, msg, "attach_in_progress")
     ELSE IF s.pri[p].pending # "none" THEN Reply(s, msg, "busy")
     ELSE IF value
     THEN LET a == assign_context(s, p, 0)
          IN IF ~a.ok THEN Reply(s, msg, "not_implemented")
             ELSE Issue([a.s EXCEPT !.pri[p].pending = "activate"],
                        "activate", p)
     ELSE Issue([s EXCEPT !.pri[p].pending = "deactivate"], "deactivate", p)

pri_set_property_active(s, p, value) ==
  LET msg == <<"pri_set_property", p>>
  IN IF s.g.pending # "none" THEN Reply(s, msg, "busy")
     ELSE IF s.pri[p].pending # "none" THEN Reply(s, msg, "busy")
     ELSE IF s.pri[p].active = value THEN Reply(s, msg, "ok")
     ELSE IF value /\ ~s.g.attached THEN Reply(s, msg, "not_attached")
     ELSE IF "ATTACHING" \in s.g.flags THEN Reply(s, msg, "attach_in_progress")
     ELSE IF value
     THEN LET a == assign_context(s, p, 0)
          IN IF ~a.ok THEN Reply(s, msg, "not_implemented")
             ELSE Issue([a.s EXCEPT !.pri[p].pending = "activate"],
                        "activate", p)
     ELSE Issue([s EXCEPT !.pri[p].pending = "deactivate"], "deactivate", p)

\* the strings the bus may carry for Type and Protocol, and the enum values
\* they parse to; "bogus" stands for every string that does not parse
TypeStrings  == {"internet", "mms", "bogus"}
ProtoStrings == {"ip", "ipv6", "bogus"}
ApnStrings   == {<<>>, <<"a">>, <<"!">>}
ConfigProperties == {"AccessPointName", "Type", "Protocol", "Bogus"}

gprs_context_string_to_type(str) ==
  IF str \in {"internet", "wap", "mms", "ims", "supl"}
  THEN [ok |-> TRUE, type |-> str] ELSE [ok |-> FALSE, type |-> "none"]

gprs_proto_from_string(str) ==
  IF str \in {"ip", "ipv6", "dual"}
  THEN [ok |-> TRUE, proto |-> str] ELSE [ok |-> FALSE, proto |-> "ip"]

\* non-empty, letters and digits only
is_valid_apn(apn) ==
  apn # <<>> /\ \A i \in 1 .. Len(apn) : apn[i] \in {"a", "b"}

pri_set_apn(s, p, apn) ==
  LET msg == <<"pri_set_property", p>>
  IN IF apn = s.pri[p].apn THEN Reply(s, msg, "ok")
     ELSE IF ~is_valid_apn(apn) THEN Reply(s, msg, "invalid_format")
     ELSE Signal(Reply([s EXCEPT !.pri[p].apn = apn], msg, "ok"),
                 <<"context", p>>, "AccessPointName", apn)

pri_set_type(s, p, str) ==
  LET msg == <<"pri_set_property", p>>
      t == gprs_context_string_to_type(str)
  IN IF ~t.ok THEN Reply(s, msg, "invalid_format")
     ELSE IF s.pri[p].type = t.type THEN Reply(s, msg, "ok")
     ELSE Signal(Reply([s EXCEPT !.pri[p].type = t.type], msg, "ok"),
                 <<"context", p>>, "Type", str)

pri_set_proto(s, p, str) ==
  LET msg == <<"pri_set_property", p>>
      t == gprs_proto_from_string(str)
  IN IF ~t.ok THEN Reply(s, msg, "invalid_format")
     ELSE IF s.pri[p].proto = t.proto THEN Reply(s, msg, "ok")
     ELSE Signal(Reply([s EXCEPT !.pri[p].proto = t.proto], msg, "ok"),
                 <<"context", p>>, "Protocol", str)

\* a SetProperty that lets the configuration of an active context change
pri_set_property_no_in_use(s, p, property, value) ==
  IF property = "Active" THEN pri_set_property_active(s, p, value)
  ELSE IF property = "AccessPointName" THEN pri_set_apn(s, p, value)
  ELSE IF property = "Type" THEN pri_set_type(s, p, value)
  ELSE IF property = "Protocol" THEN pri_set_proto(s, p, value)
  ELSE Reply(s, <<"pri_set_property", p>>, "invalid_args")

\* SetProperty of a context; MessageProxy and MessageCenter, the two
\* properties of an MMS context only, are among the names not modelled
pri_set_property(s, p, property, value) ==
  IF property = "Active" THEN pri_set_property_active(s, p, value)
  ELSE IF s.pri[p].active THEN Reply(s, <<"pri_set_property", p>>, "in_use")
  ELSE IF property = "AccessPointName" THEN pri_set_apn(s, p, value)
  ELSE IF property = "Type" THEN pri_set_type(s, p, value)
  ELSE IF property = "Protocol" THEN pri_set_proto(s, p, value)
  ELSE Reply(s, <<"pri_set_property", p>>, "invalid_args")

\* the values the bus may carry for a property
ValuesOf(property) ==
  IF property = "Active" THEN BOOLEAN
  ELSE IF property = "AccessPointName" THEN ApnStrings
  ELSE IF property = "Type" THEN TypeStrings
  ELSE ProtoStrings

\* --------------------------------------------------- context list upkeep
IsPrefix(pre, str) ==
  Len(pre) <= Len(str) /\ \A i \in 1 .. Len(pre) : pre[i] = str[i]

\* l_str_has_prefix(apn, ctx->apn) over the list, then the empty-APN pass;
\* 1 .. MaxContexts are ids, so "none" is MaxContexts + 1
find_usable_context(s, apn) ==
  LET m1 == {i \in 1 .. Len(s.list) : IsPrefix(s.pri[s.list[i]].apn, apn)}
      m2 == {i \in 1 .. Len(s.list) : s.pri[s.list[i]].apn = <<>>}
  IN IF m1 # {} THEN s.list[SetMin(m1)]
     ELSE IF m2 # {} THEN s.list[SetMin(m2)]
     ELSE MaxContexts + 1

\* an allocation that always takes the minimum unused id
NextPidMin(g) ==
  l_uintset_find_unused_min(g.used_pids, 1, MaxContexts)

NextPid(g) ==
  IF g.last_context_id # 0
  THEN l_uintset_find_unused(g.used_pids, 1, MaxContexts, g.last_context_id)
  ELSE l_uintset_find_unused_min(g.used_pids, 1, MaxContexts)

NewCtx(type, apn, proto) ==
  [live |-> TRUE, active |-> FALSE, type |-> type, proto |-> proto,
   apn |-> apn, cid |-> 0, context_driver |-> 0, pending |-> "none"]

\* the ids whose object path "context<id>" is registered on the bus
Registered(s) == {s.list[i] : i \in 1 .. Len(s.list)}

\* context_dbus_register: g_dbus_register_interface refuses a path that
\* already carries the interface, and may fail otherwise (ok); on failure
\* the id is taken out of used_pids and the object is destroyed
context_dbus_register(s, id, ok) ==
  IF ok /\ id \notin Registered(s)
  THEN [ok |-> TRUE, s |-> s]
  ELSE [ok |-> FALSE, s |-> [s EXCEPT !.g.used_pids = @ \ {id}]]

\* add_context returns the new state and the id, MaxContexts + 1 when it failed
add_context(s, type) ==
  LET id == NextPid(s.g)
      r == context_dbus_register([s EXCEPT !.g.used_pids = @ \cup {id}], id, TRUE)
  IN IF id > MaxContexts THEN [id |-> MaxContexts + 1, s |-> s]
     ELSE IF ~r.ok THEN [id |-> MaxContexts + 1, s |-> r.s]
     ELSE [id |-> id,
           s |-> [r.s EXCEPT !.g.last_context_id = id,
                             !.pri[id] = NewCtx(type, <<>>, "ip"),
                             !.list = Append(@, id)]]

\* an activation report that does not look the cid up in used_cids
ofono_gprs_cid_activated_any_cid(s, cid, apn) ==
  IF FALSE THEN s
  ELSE LET f == find_usable_context(s, apn)
           a == IF f # MaxContexts + 1 THEN [id |-> f, s |-> s]
                ELSE add_context(s, "internet")
       IN IF a.id = MaxContexts + 1 THEN a.s
          ELSE LET p == a.id
                   b == assign_context(a.s, p, cid)
                   d == b.s.pri[p].context_driver
               IN IF ~b.ok THEN a.s
                  ELSE IF ~b.s.gc[d].read_settings
                  THEN release_context(b.s, p)
                  ELSE LET s1 == IF b.s.pri[p].apn = <<>>
                                 THEN Signal([b.s EXCEPT !.pri[p].apn = apn],
                                        <<"context", p>>, "AccessPointName", apn)
                                 ELSE b.s
                       IN Call(s1, Req("read_settings", p, d))

ofono_gprs_cid_activated(s, cid, apn) ==
  IF cid \in s.g.used_cids THEN s
  ELSE LET f == find_usable_context(s, apn)
           a == IF f # MaxContexts + 1 THEN [id |-> f, s |-> s]
                ELSE add_context(s, "internet")
       IN IF a.id = MaxContexts + 1 THEN a.s
          ELSE LET p == a.id
                   b == assign_context(a.s, p, cid)
                   d == b.s.pri[p].context_driver
               IN IF ~b.ok THEN a.s
                  ELSE IF ~b.s.gc[d].read_settings
                  THEN release_context(b.s, p)
                  ELSE LET s1 == IF b.s.pri[p].apn = <<>>
                                 THEN Signal([b.s EXCEPT !.pri[p].apn = apn],
                                        <<"context", p>>, "AccessPointName", apn)
                                 ELSE b.s
                       IN Call(s1, Req("read_settings", p, d))

\* the +CGDCONT: lines of a response, by the cids they define, in order
RECURSIVE at_cgdcont_parse(_, _, _, _)
at_cgdcont_parse(s, listed, cids, apn) ==
  IF listed = {} THEN s
  ELSE LET read_cid == SetMin(listed)
           s1 == IF read_cid \in cids
                 THEN ofono_gprs_cid_activated(s, read_cid, apn) ELSE s
       IN at_cgdcont_parse(s1, listed \ {read_cid}, cids, apn)

at_cgdcont_read_cb(s, ok, listed, apn) ==
  LET s1 == [s EXCEPT !.g.driver_data.cgdcont = @ - 1]
      activated_cid == s.g.driver_data.last_auto_context_id
  IN IF ~ok THEN s1
     ELSE IF activated_cid = -1 THEN s1
     ELSE at_cgdcont_parse(s1, listed, {activated_cid}, apn)

gprs_add_context(s, type) ==
  LET a == add_context(s, type)
  IN IF a.id = MaxContexts + 1 THEN Reply(a.s, <<"AddContext">>, "failed")
     ELSE Emit(Reply(a.s, <<"AddContext">>, "ok"), <<"ContextAdded", a.id>>)

\* ------------------------------------------------- the settings store
\* a key the group does not hold
NoValue == "(null)"

gprs_context_type_to_string(type) ==
  CASE type = "internet" -> "internet"
    [] type = "mms" -> "mms"
    [] type = "wap" -> "wap"
    [] type = "ims" -> "ims"
    [] type = "supl" -> "supl"
    [] type = "ia" -> "ia"
    [] OTHER -> NoValue

gprs_proto_to_string(proto) ==
  CASE proto = "ip" -> "ip"
    [] proto = "ipv6" -> "ipv6"
    [] proto = "dual" -> "dual"
    [] OTHER -> NoValue

\* the group write_context_settings leaves in the key file; setting a key
\* to NULL leaves it unset
write_context_settings(ctx) ==
  [AccessPointName |-> ctx.apn,
   Type |-> gprs_context_type_to_string(ctx.type),
   Protocol |-> gprs_proto_to_string(ctx.proto)]

\* load_context answers whether the group was taken, and the context it made
load_context(group) ==
  LET t == gprs_context_string_to_type(group.Type)
      protostr == IF group.Protocol = NoValue THEN "ip" ELSE group.Protocol
      pr == gprs_proto_from_string(protostr)
      dropped == [ok |-> FALSE, ctx |-> NoCtx]
  IN IF group.Type = NoValue THEN dropped
     ELSE IF ~t.ok THEN dropped
     ELSE IF ~pr.ok THEN dropped
     ELSE IF group.AccessPointName = NoValue THEN dropped
     ELSE IF group.AccessPointName # <<>> /\ ~is_valid_apn(group.AccessPointName)
     THEN dropped
     ELSE [ok |-> TRUE,
           ctx |-> NewCtx(t.type, group.AccessPointName, pr.proto)]

\* load_context on the manager: entry is one group of the key file, named
\* "context<n>" or (legacy) "primarycontext<n>", ok is what the bus would
\* answer to the registration of a free path
gprs_load_context(s, entry, ok) ==
  LET id == entry.n
      lc == load_context(entry.keys)
      r == context_dbus_register([s EXCEPT !.g.used_pids = @ \cup {id}], id, ok)
  IN IF id < 1 \/ id > MaxContexts THEN [ok |-> FALSE, s |-> s]
     ELSE IF ~lc.ok THEN [ok |-> FALSE, s |-> s]
     ELSE IF ~r.ok THEN [ok |-> FALSE, s |-> r.s]
     ELSE [ok |-> TRUE,
           s |-> [r.s EXCEPT !.g.last_context_id = id,
                             !.pri[id] = lc.ctx,
                             !.list = Append(@, id)]]

\* the loop of gprs_load_settings over the groups g_key_file_get_groups
\* returned; a legacy group that loads is written back as "context<n>",
\* which replaces the keys of a group of that name still to come
RECURSIVE gprs_load_settings(_, _, _)
gprs_load_settings(s, groups, oks) ==
  IF groups = <<>> THEN s
  ELSE LET e == Head(groups)
           r == gprs_load_context(s, e, Head(oks))
           rest == Tail(groups)
           written == write_context_settings(r.s.pri[e.n])
           after == IF r.ok /\ e.legacy
                    THEN [i \in 1 .. Len(rest) |->
                           IF ~rest[i].legacy /\ rest[i].n = e.n
                           THEN [rest[i] EXCEPT !.keys = written]
                           ELSE rest[i]]
                    ELSE rest
       IN gprs_load_settings(r.s, after, Tail(oks))

\* ofono_gprs_register for a SIM whose operator has no provisioning data:
\* the stored contexts, or else the default internet context
ofono_gprs_register(s, groups, oks) ==
  LET s1 == gprs_load_settings(s, groups, oks)
  IN IF s1.list = <<>> THEN add_context(s1, "internet").s ELSE s1

RemoveFromList(list, p) == SelectSeq(list, LAMBDA x : x # p)

\* context_dbus_unregister, g_slist_remove and the object's destruction
UnregisterCtx(s, p) ==
  FreeCtx([s EXCEPT !.g.used_pids = @ \ {p},
                    !.list = RemoveFromList(@, p)], p)

\* a removal that goes ahead whatever the driver answered
gprs_deactivate_for_remove_any(s, p, error) ==
  LET s1 == release_context(pri_reset_context_settings(s, p), p)
      s2 == Signal(s1, <<"context", p>>, "Active", FALSE)
      s3 == UnregisterCtx(s2, p)
  IN Emit(Reply([s3 EXCEPT !.g.pending = "none"], <<"RemoveContext">>, "ok"),
          <<"ContextRemoved", p>>)

gprs_deactivate_for_remove(s, p, error) ==
  IF error
  THEN Reply([s EXCEPT !.g.pending = "none"], <<"RemoveContext">>, "failed")
  ELSE LET s1 == release_context(pri_reset_context_settings(s, p), p)
           s2 == Signal(s1, <<"context", p>>, "Active", FALSE)
           s3 == UnregisterCtx(s2, p)
       IN Emit(Reply([s3 EXCEPT !.g.pending = "none"], <<"RemoveContext">>, "ok"),
               <<"ContextRemoved", p>>)

gprs_remove_context(s, p) ==
  LET msg == <<"RemoveContext">>
  IN IF s.g.pending # "none" THEN Reply(s, msg, "busy")
     ELSE IF ~s.pri[p].live THEN Reply(s, msg, "not_found")
     ELSE IF s.pri[p].pending # "none" THEN Reply(s, msg, "busy")
     ELSE IF s.pri[p].active
     THEN Issue([s EXCEPT !.g.pending = "remove"], "deact_remove", p)
     ELSE Emit(Reply(UnregisterCtx(s, p), msg, "ok"), <<"ContextRemoved", p>>)

\* a DeactivateAll that takes the last active context of the list first
gprs_deactivate_next_last(s) ==
  LET act == {i \in 1 .. Len(s.list) : s.pri[s.list[i]].active}
  IN IF act # {} THEN Issue(s, "deact_all", s.list[SetMax(act)])
     ELSE Reply([s EXCEPT !.g.pending = "none"], <<"DeactivateAll">>, "ok")

gprs_deactivate_next(s) ==
  LET act == {i \in 1 .. Len(s.list) : s.pri[s.list[i]].active}
  IN IF act # {} THEN Issue(s, "deact_all", s.list[SetMin(act)])
     ELSE Reply([s EXCEPT !.g.pending = "none"], <<"DeactivateAll">>, "ok")

\* a DeactivateAll that goes on to the next context after a failure
gprs_deactivate_for_all_goes_on(s, p, error) ==
  IF error
  THEN gprs_deactivate_next([s EXCEPT !.pri[p].active = FALSE])
  ELSE gprs_deactivate_next(
         pri_context_signal_active(
           release_context(pri_reset_context_settings(s, p), p), p))

gprs_deactivate_for_all(s, p, error) ==
  IF error
  THEN Reply([s EXCEPT !.g.pending = "none"], <<"DeactivateAll">>, "failed")
  ELSE gprs_deactivate_next(
         pri_context_signal_active(
           release_context(pri_reset_context_settings(s, p), p), p))

\* a DeactivateAll that does not look at the contexts' pending requests
gprs_deactivate_all_no_ctx_busy(s) ==
  IF s.g.pending # "none" THEN Reply(s, <<"DeactivateAll">>, "busy")
  ELSE gprs_deactivate_next([s EXCEPT !.g.pending = "deactivate_all"])

gprs_deactivate_all(s) ==
  IF s.g.pending # "none" THEN Reply(s, <<"DeactivateAll">>, "busy")
  ELSE IF \E i \in 1 .. Len(s.list) : s.pri[s.list[i]].pending # "none"
  THEN Reply(s, <<"DeactivateAll">>, "busy")
  ELSE gprs_deactivate_next([s EXCEPT !.g.pending = "deactivate_all"])

\* ------------------------------------------------------- ResetContexts
RECURSIVE remove_all_contexts(_)
remove_all_contexts(s) ==
  IF s.list = <<>> THEN s
  ELSE LET p == Head(s.list)
       IN remove_all_contexts(Emit(UnregisterCtx(s, p), <<"ContextRemoved", p>>))

provision_context(s, ap) ==
  LET id == NextPid(s.g)
      r == context_dbus_register([s EXCEPT !.g.used_pids = @ \cup {id}], id, TRUE)
  IN IF id > MaxContexts THEN s
     ELSE IF ~r.ok THEN r.s
     ELSE [r.s EXCEPT !.g.last_context_id = id,
                      !.pri[id] = NewCtx(ap.type, ap.apn, ap.proto),
                      !.list = Append(@, id)]

RECURSIVE provision_contexts(_, _)
provision_contexts(s, aps) ==
  IF aps = <<>> THEN s
  ELSE provision_contexts(provision_context(s, Head(aps)), Tail(aps))

RECURSIVE send_context_added_signals(_, _)
send_context_added_signals(s, i) ==
  IF i > Len(s.list) THEN s
  ELSE send_context_added_signals(Emit(s, <<"ContextAdded", s.list[i]>>), i + 1)

\* a ResetContexts that does not look for active contexts
gprs_reset_contexts_no_active_check(s, aps) ==
  LET msg == <<"ResetContexts">>
  IN IF s.g.pending # "none" THEN Reply(s, msg, "busy")
     ELSE IF \E i \in 1 .. Len(s.list) : s.pri[s.list[i]].pending # "none"
     THEN Reply(s, msg, "busy")
     ELSE IF s.g.powered THEN Reply(s, msg, "not_allowed")
     ELSE LET s1 == remove_all_contexts(s)
              s2 == provision_contexts([s1 EXCEPT !.g.last_context_id = 0], aps)
              s3 == IF s2.list = <<>> THEN add_context(s2, "internet").s ELSE s2
          IN Reply(send_context_added_signals(s3, 1), msg, "ok")

gprs_reset_contexts(s, aps) ==
  LET msg == <<"ResetContexts">>
  IN IF s.g.pending # "none" THEN Reply(s, msg, "busy")
     ELSE IF \E i \in 1 .. Len(s.list) : s.pri[s.list[i]].pending # "none"
     THEN Reply(s, msg, "busy")
     ELSE IF s.g.powered THEN Reply(s, msg, "not_allowed")
     ELSE IF have_active_contexts(s) THEN Reply(s, msg, "not_allowed")
     ELSE LET s1 == remove_all_contexts(s)
              s2 == provision_contexts([s1 EXCEPT !.g.last_context_id = 0], aps)
              s3 == IF s2.list = <<>> THEN add_context(s2, "internet").s ELSE s2
          IN Reply(send_context_added_signals(s3, 1), msg, "ok")

\* ------------------------------------------------- manager SetProperty
gprs_set_property(s, property, value) ==
  LET msg == <<"SetProperty", property>>
  IN IF s.g.pending # "none" THEN Reply(s, msg, "busy")
     ELSE IF property = "RoamingAllowed"
     THEN IF s.g.roaming_allowed = value THEN Reply(s, msg, "ok")
          ELSE Reply(Signal(gprs_netreg_update(
                              [s EXCEPT !.g.roaming_allowed = value]),
                            "manager", property, value), msg, "ok")
     ELSE IF property = "Powered"
     THEN IF s.g.powered = value THEN Reply(s, msg, "ok")
          ELSE Reply(Signal(gprs_netreg_update([s EXCEPT !.g.powered = value]),
                            "manager", property, value), msg, "ok")
     ELSE Reply(s, msg, "invalid_args")

\* ----------------------------------------- binding loss and deactivation
RECURSIVE unregister_from(_, _, _)
unregister_from(s, d, i) ==
  IF i > Len(s.list) THEN s
  ELSE LET p == s.list[i]
       IN IF s.pri[p].context_driver # d THEN unregister_from(s, d, i + 1)
          ELSE LET s1 == IF s.pri[p].pending # "none"
                         THEN Reply([s EXCEPT !.pri[p].pending = "none"],
                                    <<"context", p>>, "failed")
                         ELSE s
               IN IF ~s1.pri[p].active THEN s1
                  ELSE unregister_from(
                         Signal(release_context(
                                  pri_reset_context_settings(s1, p), p),
                                <<"context", p>>, "Active", FALSE),
                         d, i + 1)

\* the binding leaves context_drivers; its driver is torn down with the
\* requests it still holds
gprs_context_unregister(s, d) ==
  LET s1 == unregister_from(s, d, 1)
  IN [context_settings_free(s1, d) EXCEPT
        !.gc[d].reg = FALSE,
        !.reqs = {r \in @ : r.gc # d}]

RECURSIVE deactivated_from(_, _, _)
deactivated_from(s, cid, i) ==
  IF i > Len(s.list) THEN s
  ELSE LET p == s.list[i]
       IN IF s.pri[p].cid # cid THEN deactivated_from(s, cid, i + 1)
          ELSE IF ~s.pri[p].active THEN s
          ELSE deactivated_from(
                 Signal(release_context(pri_reset_context_settings(s, p), p),
                        <<"context", p>>, "Active", FALSE),
                 cid, i + 1)

\* a deactivation report that updates attached only for ATTACHED_UPDATE
ofono_gprs_context_deactivated_no_lte(s, cid) ==
  LET s1 == deactivated_from(s, cid, 1)
  IN IF "ATTACHED_UPDATE" \in s1.g.flags
     THEN gprs_attached_update([s1 EXCEPT !.g.flags = @ \ {"ATTACHED_UPDATE"}])
     ELSE s1

ofono_gprs_context_deactivated(s, cid) ==
  LET s1 == deactivated_from(s, cid, 1)
  IN IF on_lte(s1) \/ "ATTACHED_UPDATE" \in s1.g.flags
     THEN gprs_attached_update([s1 EXCEPT !.g.flags = @ \ {"ATTACHED_UPDATE"}])
     ELSE s1

\* ------------------------------------------------------------- the model
SuspendCauses == {"call", "signalling"}
TypeInputs == {"internet"}
\* what the provisioning database answers to ResetContexts
ProvisionInputs ==
  {<<>>, <<[type |-> "internet", apn |-> <<"a">>, proto |-> "ip"]>>}

\* provisioning templates of every kind: internet, MMS, initial attach
SettingsProvision ==
  {<<>>,
   <<[type |-> "internet", apn |-> <<"a">>, proto |-> "ip"]>>,
   <<[type |-> "mms", apn |-> <<"b">>, proto |-> "ipv6"]>>,
   <<[type |-> "ia", apn |-> <<"a">>, proto |-> "dual"]>>,
   <<[type |-> "internet", apn |-> <<"a">>, proto |-> "dual"],
     [type |-> "ia", apn |-> <<"b">>, proto |-> "ip"]>>}

\* a binding as ofono_gprs_add_context leaves it, for a driver with or
\* without read_settings and detach_shutdown
NewGc(rs, ds) ==
  [reg |-> TRUE, inuse |-> FALSE, type |-> "any", activate |-> TRUE,
   deactivate |-> TRUE,
   read_settings |-> rs, detach_shutdown |-> ds, ipv4 |-> FALSE, ipv6 |-> FALSE]

\* a binding whose driver set its type and implements activate_primary
\* and deactivate_primary or not
GcTypes == {"any", "mms"}

NewGcOf(type, act, deact) ==
  [NewGc(FALSE, FALSE) EXCEPT !.type = type, !.activate = act,
                              !.deactivate = deact]

\* the atom as OFONO_DEFINE_ATOM_CREATE and ofono_gprs_register leave it:
\* default preferences, one default internet context with id 1
\* the data of a driver that is not the AT driver
\* (pdn is the modem's side: the cids it reported activated and has not
\* reported deactivated; cgdcont counts the AT+CGDCONT? reads in flight)
NoDriverData ==
  [vendor |-> "none", attached |-> FALSE, telit_try_reattach |-> FALSE,
   last_auto_context_id |-> -1, cgdcont |-> 0, pdn |-> {}]

\* the AT driver after at_gprs_probe, for one vendor
AtDriverData(vendor) == [NoDriverData EXCEPT !.vendor = vendor]

InitGprs(as) ==
  [attached |-> FALSE, driver_attached |-> FALSE, roaming_allowed |-> FALSE,
   powered |-> TRUE, suspended |-> FALSE, status |-> "unknown", flags |-> {},
   bearer |-> 0, suspend_timeout |-> FALSE, used_pids |-> {1},
   last_context_id |-> 1, used_cids |-> {}, netreg_status |-> "unset",
   netreg |-> FALSE, technology |-> "none", pending |-> "none",
   has_attached_status |-> as, driver_data |-> NoDriverData]

InitWith(AS, RS, DS) ==
  /\ \E as \in AS : gprs = InitGprs(as)
  /\ contexts = <<1>>
  /\ pri = [p \in Pids |-> IF p = 1 THEN NewCtx("internet", <<>>, "ip") ELSE NoCtx]
  /\ \E rs \in RS, ds \in DS : gc = [d \in Gcs |-> NewGc(rs, ds)]
  /\ reqs = {}
  /\ attq = <<>>
  /\ out = <<>>
  /\ crashed = FALSE

\* a manager driven by the AT driver of one of the vendors V
InitAtDriver(V) ==
  /\ \E v \in V : gprs = [InitGprs(TRUE) EXCEPT !.driver_data = AtDriverData(v)]
  /\ contexts = <<1>>
  /\ pri = [p \in Pids |-> IF p = 1 THEN NewCtx("internet", <<>>, "ip") ELSE NoCtx]
  /\ gc = [d \in Gcs |-> NewGc(TRUE, FALSE)]
  /\ reqs = {}
  /\ attq = <<>>
  /\ out = <<>>
  /\ crashed = FALSE

\* ---- the netreg atom and the packet-domain reports of the gprs driver
NetregWatchRegistered(S, T) ==
  /\ ~crashed /\ ~gprs.netreg
  /\ \E st \in S, tech \in T : Commit(netreg_watch(Cur, st, tech))

NetregRemoved ==
  /\ ~crashed /\ gprs.netreg
  /\ Commit([gprs_netreg_removed(Cur) EXCEPT !.g.technology = "none"])

NetregStatusChanged(S, T) ==
  /\ ~crashed /\ gprs.netreg
  /\ \E st \in S, tech \in T : Commit(netreg_status_changed(Cur, st, tech))

StatusNotify(S) ==
  /\ ~crashed
  /\ \E st \in S : Commit(ofono_gprs_status_notify(Cur, st))

DetachedNotify ==
  /\ ~crashed
  /\ Commit(ofono_gprs_detached_notify(Cur))

SuspendNotify ==
  /\ ~crashed
  /\ \E cause \in SuspendCauses : Commit(ofono_gprs_suspend_notify(Cur, cause))

ResumeNotify ==
  /\ ~crashed
  /\ Commit(ofono_gprs_resume_notify(Cur))

SuspendTimeout ==
  /\ ~crashed /\ gprs.suspend_timeout
  /\ Commit(suspend_timeout(Cur))

CgregNotify ==
  /\ ~crashed
  /\ \E status \in CgregInputs : Commit(cgreg_notify(Cur, status))

CgevNotify(E) ==
  /\ ~crashed
  /\ \E event \in E : Commit(cgev_notify(modem_pdn(Cur, event), event))

\* the answer to AT+CGDCONT?: it lists at least the cids the modem holds
\* activated, each with the access point "a"
CgdcontReadCallback(OK) ==
  /\ ~crashed /\ gprs.driver_data.cgdcont > 0
  /\ \E ok \in OK, listed \in SUBSET Cids :
       /\ gprs.driver_data.pdn \subseteq listed
       /\ Commit(at_cgdcont_read_cb(Cur, ok, listed, <<"a">>))

ModeNotify ==
  /\ ~crashed
  /\ \E code \in CodeInputs : Commit(mode_notify(Cur, code))

HcsqNotify ==
  /\ ~crashed /\ gprs.driver_data.vendor = "huawei"
  /\ \E mode \in {"LTE", "WCDMA"} : Commit(huawei_hcsq_notify(Cur, mode))

BearerNotify ==
  /\ ~crashed
  /\ \E bearer \in BearerInputs : Commit(ofono_gprs_bearer_notify(Cur, bearer))

GetProperties ==
  /\ ~crashed
  /\ Commit(Reply(Cur, <<"GetProperties">>, gprs_get_properties(Cur)))

\* the oldest attach request completes
Dequeued == [Cur EXCEPT !.attq = Tail(@)]

AttachCallback ==
  /\ ~crashed /\ attq # <<>> /\ Head(attq).kind = "set_attached"
  /\ \E error \in BOOLEAN : Commit(gprs_attach_callback(Dequeued, error))

StatusCallback(S) ==
  /\ ~crashed /\ attq # <<>> /\ Head(attq).kind = "attached_status"
  /\ \E error \in BOOLEAN, st \in S :
       Commit(registration_status_cb(Dequeued, error, st))

\* ---- completions of the requests in flight at the bindings
Done(r) == [Cur EXCEPT !.reqs = @ \ {r}]

ActivateCallback ==
  /\ ~crashed
  /\ \E r \in reqs, error \in BOOLEAN :
       /\ r.kind = "activate"
       /\ Commit(pri_activate_callback(Done(r), r.ctx, error))

DeactivateCallback ==
  /\ ~crashed
  /\ \E r \in reqs, error \in BOOLEAN :
       /\ r.kind = "deactivate"
       /\ Commit(pri_deactivate_callback(Done(r), r.ctx, error))

ReadSettingsCallback ==
  /\ ~crashed
  /\ \E r \in reqs, error \in BOOLEAN :
       /\ r.kind = "read_settings" /\ ~r.stale
       /\ Commit(pri_read_settings_callback(Done(r), r.ctx, error))

\* the callback of a read_settings whose pri_context has been freed: the
\* access faults, or it finds the old contents
ReadSettingsCallbackFreed ==
  /\ ~crashed
  /\ \E r \in reqs, error \in BOOLEAN :
       /\ r.kind = "read_settings" /\ r.stale
       /\ \/ Commit(Crash(Cur))
          \/ Commit(pri_read_settings_callback_freed(Done(r), r, error))

DeactivateForRemoveCallback ==
  /\ ~crashed
  /\ \E r \in reqs, error \in BOOLEAN :
       /\ r.kind = "deact_remove"
       /\ Commit(gprs_deactivate_for_remove(Done(r), r.ctx, error))

DeactivateForAllCallback(E) ==
  /\ ~crashed
  /\ \E r \in reqs, error \in E :
       /\ r.kind = "deact_all"
       /\ Commit(gprs_deactivate_for_all(Done(r), r.ctx, error))

\* ---- bus requests and modem events
PriSetPropertyActive ==
  /\ ~crashed
  /\ \E p \in Pids, value \in BOOLEAN :
       /\ pri[p].live
       /\ Commit(pri_set_property_active(Cur, p, value))

CidActivated(A) ==
  /\ ~crashed
  /\ \E cid \in Cids, apn \in A :
       Commit(ofono_gprs_cid_activated(Cur, cid, apn))

ContextDeactivated ==
  /\ ~crashed
  /\ \E d \in Gcs : gc[d].reg
  /\ \E cid \in Cids : Commit(ofono_gprs_context_deactivated(Cur, cid))

AddContext ==
  /\ ~crashed
  /\ \E type \in TypeInputs : Commit(gprs_add_context(Cur, type))

RemoveContext ==
  /\ ~crashed
  /\ \E p \in Pids : Commit(gprs_remove_context(Cur, p))

DeactivateAll ==
  /\ ~crashed
  /\ Commit(gprs_deactivate_all(Cur))

ResetContexts(P) ==
  /\ ~crashed
  /\ \E aps \in P : Commit(gprs_reset_contexts(Cur, aps))

SetProperty(Props) ==
  /\ ~crashed
  /\ \E property \in Props, value \in BOOLEAN :
       Commit(gprs_set_property(Cur, property, value))

PriSetProperty(Props) ==
  /\ ~crashed
  /\ \E p \in Pids, property \in Props :
       /\ pri[p].live
       /\ \E value \in ValuesOf(property) :
            Commit(pri_set_property(Cur, p, property, value))

ContextUnregister(D) ==
  /\ ~crashed
  /\ \E d \in D : gc[d].reg /\ Commit(gprs_context_unregister(Cur, d))

\* ------------------------------------------------------- specifications
\* The attach state machine under every trigger it has: the netreg atom
\* coming, going and changing status, packet-domain reports, the user's
\* preferences and the completions of the attach requests.
Init == InitWith(BOOLEAN, BOOLEAN, {FALSE})

Next ==
  \/ NetregWatchRegistered(NetregInputs \cup {"unknown"}, TechInputs)
  \/ NetregRemoved
  \/ NetregStatusChanged(NetregInputs, TechInputs)
  \/ StatusNotify(StatusInputs)
  \/ DetachedNotify
  \/ AttachCallback
  \/ StatusCallback(StatusInputs)
  \/ SetProperty({"Powered", "RoamingAllowed"})

Spec == Init /\ [][Next]_vars

\* Suspend and resume reports and the debounce timer, while packet-domain
\* reports attach and detach the manager.
InitSuspend == InitWith(BOOLEAN, {TRUE}, {FALSE})

NextSuspend ==
  \/ StatusNotify(StatusInputs)
  \/ DetachedNotify
  \/ AttachCallback
  \/ StatusCallback(StatusInputs)
  \/ SuspendNotify
  \/ ResumeNotify
  \/ SuspendTimeout

SpecSuspend == InitSuspend /\ [][NextSuspend]_vars

\* The manager's properties as the bus sees them: the driver reports status,
\* bearer, suspension and resumption while the manager attaches and
\* detaches, and a client reads the properties.
InitProperties == InitWith(BOOLEAN, {TRUE}, {FALSE})

NextProperties ==
  \/ StatusNotify(StatusInputs)
  \/ AttachCallback
  \/ StatusCallback(StatusInputs)
  \/ SuspendNotify
  \/ ResumeNotify
  \/ SuspendTimeout
  \/ BearerNotify
  \/ GetProperties

SpecProperties == InitProperties /\ [][NextProperties]_vars

\* The AT driver under the attach machine: the modem's +CGREG and +CGEV
\* lines reach the driver, which passes them on to the core or, for Telit,
\* answers a detach with a silent re-attach; the user switches Powered.
InitTelit == InitAtDriver(Vendors)

NextTelit ==
  \/ NetregWatchRegistered({"registered"}, {"gsm"})
  \/ NetregStatusChanged({"registered", "not-registered"}, {"gsm"})
  \/ AttachCallback
  \/ StatusCallback({"registered", "not-registered"})
  \/ CgregNotify
  \/ CgevNotify(CgevInputs)
  \/ SetProperty({"Powered"})

SpecTelit == InitTelit /\ [][NextTelit]_vars

\* The bearer lines of the vendor dialects: the modem sends its bearer
\* codes while the manager attaches and detaches.
InitBearer == InitAtDriver(BearerVendors)

NextBearer ==
  \/ CgregNotify
  \/ ModeNotify
  \/ HcsqNotify

SpecBearer == InitBearer /\ [][NextBearer]_vars

\* The contexts and their bindings on an attached manager: user
\* activations and deactivations, auto-activations reported by the modem,
\* unsolicited deactivations, and contexts added and removed, with every
\* driver request completing in any order, with or without error.
InitContexts == InitWith({TRUE}, {TRUE}, {FALSE})

NextContexts ==
  \/ StatusNotify({"registered"})
  \/ DetachedNotify
  \/ PriSetPropertyActive
  \/ ActivateCallback
  \/ DeactivateCallback
  \/ CidActivated({<<"a">>})
  \/ ReadSettingsCallback
  \/ ReadSettingsCallbackFreed
  \/ ContextDeactivated
  \/ AddContext
  \/ RemoveContext
  \/ DeactivateForRemoveCallback
  \/ DeactivateAll
  \/ DeactivateForAllCallback(BOOLEAN)

SpecContexts == InitContexts /\ [][NextContexts]_vars

\* The user's requests to the manager and to its contexts while the attach
\* machine is at work: attach and detach requests in flight, manager-level
\* requests pending, and the user's activations.
InitRequests == InitWith({TRUE}, {TRUE}, {FALSE})

NextRequests ==
  \/ StatusNotify({"registered", "roaming"})
  \/ AttachCallback
  \/ StatusCallback({"registered", "not-registered"})
  \/ SetProperty({"Powered"})
  \/ PriSetPropertyActive
  \/ ActivateCallback
  \/ DeactivateCallback
  \/ AddContext
  \/ RemoveContext
  \/ DeactivateForRemoveCallback
  \/ DeactivateAll
  \/ DeactivateForAllCallback(BOOLEAN)
  \/ ResetContexts(ProvisionInputs)

SpecRequests == InitRequests /\ [][NextRequests]_vars

\* Auto-activation on every access technology: the netreg atom reports its
\* status and technology, the modem reports contexts it activated and
\* deactivated, the user activates and deactivates the default context.
InitAuto == InitWith({TRUE}, BOOLEAN, {FALSE})

NextAuto ==
  \/ NetregWatchRegistered({"registered"}, TechInputs)
  \/ NetregStatusChanged({"registered", "not-registered"}, TechInputs)
  \/ StatusNotify({"registered", "not-registered"})
  \/ AttachCallback
  \/ StatusCallback({"registered"})
  \/ CidActivated({<<"a">>})
  \/ ReadSettingsCallback
  \/ ContextDeactivated
  \/ PriSetPropertyActive
  \/ ActivateCallback
  \/ DeactivateCallback

SpecAuto == InitAuto /\ [][NextAuto]_vars

\* Loss of a binding: the modem's context atoms are unregistered while
\* contexts are bound to them and while activations, a RemoveContext or a
\* DeactivateAll are in flight at them.
InitUnregister == InitWith({TRUE}, {TRUE}, {FALSE})

NextUnregister ==
  \/ StatusNotify({"registered"})
  \/ PriSetPropertyActive
  \/ ActivateCallback
  \/ DeactivateCallback
  \/ CidActivated({<<"a">>})
  \/ ReadSettingsCallback
  \/ AddContext
  \/ RemoveContext
  \/ DeactivateForRemoveCallback
  \/ DeactivateAll
  \/ DeactivateForAllCallback(BOOLEAN)
  \/ ContextUnregister(Gcs)

SpecUnregister == InitUnregister /\ [][NextUnregister]_vars

\* The configuration of a context: the user sets its APN, type and protocol
\* while it is inactive, being activated, active and being deactivated.
InitConfig == InitWith({TRUE}, {TRUE}, {FALSE})

NextConfig ==
  \/ StatusNotify({"registered"})
  \/ PriSetPropertyActive
  \/ ActivateCallback
  \/ DeactivateCallback
  \/ PriSetProperty(ConfigProperties)

SpecConfig == InitConfig /\ [][NextConfig]_vars

\* Drivers that shut contexts down at detach: the registration comes and goes
\* while the user activates, deactivates and removes contexts, so that an
\* attach can find contexts that are still active.
InitDeferred == InitWith({TRUE}, {FALSE}, {TRUE})

NextDeferred ==
  \/ StatusNotify({"registered", "not-registered"})
  \/ PriSetPropertyActive
  \/ ActivateCallback
  \/ DeactivateCallback
  \/ ContextDeactivated
  \/ AddContext
  \/ RemoveContext
  \/ DeactivateForRemoveCallback
  \/ DeactivateAll
  \/ DeactivateForAllCallback(BOOLEAN)

SpecDeferred == InitDeferred /\ [][NextDeferred]_vars

\* DeactivateAll with a driver whose deactivations all succeed and complete:
\* the user activates contexts and asks for all of them to be deactivated.
InitDeactivateAll == InitWith({TRUE}, {TRUE}, {FALSE})

NextDeactivateAll ==
  \/ StatusNotify({"registered"})
  \/ PriSetPropertyActive
  \/ ActivateCallback
  \/ DeactivateCallback
  \/ AddContext
  \/ DeactivateAll
  \/ DeactivateForAllCallback({FALSE})

SpecDeactivateAll ==
  /\ InitDeactivateAll
  /\ [][NextDeactivateAll]_vars
  /\ WF_vars(DeactivateForAllCallback({FALSE}))

\* Bindings of every kind: typed or not, with or without the two activation
\* operations (the first binding; the second has both); the user sets the
\* contexts' types and activates them.
InitAssign ==
  /\ gprs = InitGprs(TRUE)
  /\ contexts = <<1>>
  /\ pri = [p \in Pids |-> IF p = 1 THEN NewCtx("internet", <<>>, "ip") ELSE NoCtx]
  /\ \E t \in GcTypes, a \in BOOLEAN, d \in BOOLEAN, u \in GcTypes :
       gc = [e \in Gcs |-> IF e = 1 THEN NewGcOf(t, a, d)
                                     ELSE NewGcOf(u, TRUE, TRUE)]
  /\ reqs = {}
  /\ attq = <<>>
  /\ out = <<>>
  /\ crashed = FALSE

NextAssign ==
  \/ StatusNotify({"registered"})
  \/ PriSetPropertyActive
  \/ ActivateCallback
  \/ DeactivateCallback
  \/ AddContext
  \/ PriSetProperty({"Type"})

SpecAssign == InitAssign /\ [][NextAssign]_vars

\* The choice of a context for a modem-activated cid: the user adds contexts
\* and names their access points, the modem activates cids.
InitChoice == InitWith({TRUE}, {TRUE}, {FALSE})

NextChoice ==
  \/ AddContext
  \/ PriSetProperty({"AccessPointName"})
  \/ CidActivated(ApnInputs)
  \/ ReadSettingsCallback

SpecChoice == InitChoice /\ [][NextChoice]_vars

\* The PDN events of the AT dialect: the modem activates and deactivates
\* contexts on its own, the driver reads the context list after each
\* activation and the reads succeed.
InitPdn == InitAtDriver({"generic"})

NextPdn ==
  \/ CgevNotify(PdnAct \cup PdnDeact)
  \/ CgdcontReadCallback({TRUE})

SpecPdn == InitPdn /\ [][NextPdn]_vars

\* LTE and the user's preferences: the network comes and goes on GSM and on
\* LTE, the user powers the manager and allows roaming, the modem activates
\* and deactivates its default bearer.
InitLte == InitWith({TRUE}, {TRUE}, {FALSE})

NextLte ==
  \/ NetregWatchRegistered({"registered"}, TechInputs)
  \/ NetregStatusChanged(NetregInputs, TechInputs)
  \/ SetProperty({"Powered", "RoamingAllowed"})
  \/ AttachCallback
  \/ StatusCallback({"registered"})
  \/ CidActivated({<<"a">>})
  \/ ReadSettingsCallback
  \/ ContextDeactivated

SpecLte == InitLte /\ [][NextLte]_vars

\* The stored settings: contexts are made by AddContext, by provisioning
\* and by the modem's own activations.
InitSettings == InitWith({TRUE}, {TRUE}, {FALSE})

NextSettings ==
  \/ SetProperty({"Powered"})
  \/ AddContext
  \/ RemoveContext
  \/ ResetContexts(SettingsProvision)
  \/ CidActivated(ApnInputs)
  \/ ReadSettingsCallback

SpecSettings == InitSettings /\ [][NextSettings]_vars

\* The settings store at registration: up to MaxGroups groups, named
\* "context<n>" or "primarycontext<n>", then contexts are added and removed.
MaxGroups == 2

StoredKeys ==
  {[AccessPointName |-> <<>>, Type |-> "internet", Protocol |-> "ip"],
   [AccessPointName |-> <<"a">>, Type |-> "mms", Protocol |-> NoValue],
   [AccessPointName |-> <<"a">>, Type |-> "bogus", Protocol |-> "ip"]}

StoredGroups ==
  [legacy : BOOLEAN, n : 0 .. MaxContexts + 1, keys : StoredKeys]

\* key files: group names are unique
Stores ==
  {st \in UNION {[1 .. k -> StoredGroups] : k \in 0 .. MaxGroups} :
     \A i, j \in 1 .. Len(st) :
       i # j => (st[i].legacy # st[j].legacy \/ st[i].n # st[j].n)}

\* the manager ofono_gprs_create returns
NewGprs ==
  [g |-> [InitGprs(TRUE) EXCEPT !.used_pids = {}, !.last_context_id = 0],
   list |-> <<>>, pri |-> [p \in Pids |-> NoCtx],
   gc |-> [d \in Gcs |-> NewGc(TRUE, FALSE)],
   reqs |-> {}, attq |-> <<>>, out |-> <<>>, crash |-> FALSE, over |-> FALSE]

InitLoad ==
  \E st \in Stores : \E oks \in [1 .. Len(st) -> BOOLEAN] :
    LET s == ofono_gprs_register(NewGprs, st, oks)
    IN /\ gprs = s.g
       /\ contexts = s.list
       /\ pri = s.pri
       /\ gc = s.gc
       /\ reqs = {}
       /\ attq = <<>>
       /\ out = <<>>
       /\ crashed = FALSE

NextLoad ==
  \/ AddContext
  \/ RemoveContext
  \/ PriSetProperty({"AccessPointName", "Type"})

SpecLoad == InitLoad /\ [][NextLoad]_vars

\* The attach machine alone: the user's preferences and the registration
\* change, the driver reports its status and answers every request.
InitStable == InitWith({TRUE}, {TRUE}, {FALSE})

NextStable ==
  \/ NetregWatchRegistered(NetregInputs, {"gsm"})
  \/ NetregStatusChanged(NetregInputs, {"gsm"})
  \/ SetProperty({"Powered", "RoamingAllowed"})
  \/ StatusNotify(StatusInputs)
  \/ AttachCallback
  \/ StatusCallback(StatusInputs)

SpecStable ==
  /\ InitStable
  /\ [][NextStable]_vars
  /\ WF_vars(AttachCallback)
  /\ WF_vars(StatusCallback(StatusInputs))

\* ------------------------------------------------------------ properties
Live == {p \in Pids : pri[p].live}

\* the handler answered req with res and did nothing else
Rejected(s, req, res) == s = [Cur EXCEPT !.out = <<<<"reply", req, res>>>>]

Signalled(obj, prop, val) ==
  \E i \in 1 .. Len(out) : out[i] = <<"signal", obj, prop, val>>

\* C1: every context with active = true has its cid in used_cids and is
\* bound to a context-driver binding whose inuse flag is set.
C1_ActiveBound ==
  \A p \in Live :
    pri[p].active =>
      /\ pri[p].cid \in gprs.used_cids
      /\ pri[p].context_driver # 0
      /\ gc[pri[p].context_driver].inuse

\* two contexts are active at once, one of them just activated
C1_Witness ==
  /\ ~crashed
  /\ \E p, q \in Live :
       /\ p # q /\ pri[p].active /\ pri[q].active
       /\ Signalled(<<"context", p>>, "Active", TRUE)

\* C2: every binding with inuse = true is referenced as context_driver by
\* exactly one context of the list. The code does not keep this: an
\* auto-activation that selects a bound context rebinds it and leaves the
\* old binding in use with no context referring to it.
C2_InuseReferencedOnce ==
  \A d \in Gcs :
    gc[d].reg /\ gc[d].inuse =>
      Cardinality({p \in Live : pri[p].context_driver = d}) = 1

\* C3: at most one set_attached request (with its attached_status query)
\* is in flight. The code does not keep this: removal of the netreg atom
\* clears ATTACHING under a request in flight, and the atom's return
\* issues a second one.
C3_OneSetAttached == Len(attq) <= 1

\* C5: at most one driver request is outstanding per context. The code
\* does not keep this: read_settings is issued for, and during, a context's
\* activation or deactivation.
C5_OneRequestPerContext ==
  \A p \in Live : Cardinality({r \in reqs : r.ctx = p /\ ~r.stale}) <= 1

\* the status part of a completion, before RECHECK is looked at
StatusHandled(s, error, status) ==
  LET s1 == [s EXCEPT !.g.flags = @ \ {"ATTACHING"}]
  IN IF ~error THEN ofono_gprs_status_notify(s1, status)
     ELSE gprs_attached_update(s1)

SetAttachedReq(v) == [kind |-> "set_attached", val |-> v]

\* the completions that can end the chain of the request at the head of attq:
\* the state the chain's last callback runs in, and the answer it is given
ChainEnds ==
  IF attq = <<>> \/ crashed THEN {}
  ELSE IF Head(attq).kind = "attached_status"
  THEN {[s |-> Dequeued, error |-> e, status |-> st] :
          e \in BOOLEAN, st \in StatusInputs}
  ELSE IF ~gprs.has_attached_status
  THEN {[s |-> IF e THEN [Dequeued EXCEPT !.g.driver_attached = ~@]
               ELSE Dequeued,
         error |-> TRUE, status |-> "unset"] : e \in BOOLEAN}
  ELSE {}

\* gprs_netreg_update under ATTACHING, off LTE, with want # driver_attached
DeferredTrigger ==
  /\ ~crashed
  /\ "ATTACHING" \in gprs.flags
  /\ gprs.netreg_status # "unset"
  /\ ~on_lte(Cur)
  /\ WantAttach(gprs) # gprs.driver_attached

\* C4 (amended): a trigger that arrives while a set_attached is in flight
\* is not lost. gprs_netreg_update then sets RECHECK and issues nothing.
\* When the request's chain completes with RECHECK set, after the status
\* has been handled: on LTE with read_settings, or with want equal to
\* driver_attached, RECHECK is cleared and nothing is issued; if the status
\* handling itself has started a detach (ATTACHING is set again), RECHECK
\* stays set and nothing is issued; otherwise RECHECK is cleared and
\* set_attached(want) is issued with ATTACHING set and driver_attached = want.
C4_Recheck ==
  /\ DeferredTrigger =>
       gprs_netreg_update(Cur) = [Cur EXCEPT !.g.flags = @ \cup {"RECHECK"}]
  /\ \A c \in ChainEnds :
       LET mid == StatusHandled(c.s, c.error, c.status)
           fin == registration_status_cb(c.s, c.error, c.status)
           want == WantAttach(mid.g)
       IN "RECHECK" \in c.s.g.flags =>
            IF on_lte(mid)
            THEN fin.attq = mid.attq /\ "RECHECK" \notin fin.g.flags
            ELSE IF want = mid.g.driver_attached
            THEN fin = [mid EXCEPT !.g.flags = @ \ {"RECHECK"}]
            ELSE IF "ATTACHING" \in mid.g.flags
            THEN fin = mid
            ELSE fin = [mid EXCEPT
                          !.g.flags = (@ \ {"RECHECK"}) \cup {"ATTACHING"},
                          !.g.driver_attached = want,
                          !.attq = Append(@, SetAttachedReq(want))]

\* RECHECK is set under a status query whose completion can issue the
\* request that was deferred
C4_Witness ==
  /\ "RECHECK" \in gprs.flags
  /\ \E c \in ChainEnds :
       LET mid == StatusHandled(c.s, c.error, c.status)
           fin == registration_status_cb(c.s, c.error, c.status)
       IN /\ mid.attq = <<>>
          /\ WantAttach(mid.g) # mid.g.driver_attached
          /\ fin.attq = <<SetAttachedReq(WantAttach(mid.g))>>

\* C4 as stated: when the in-flight request completes with RECHECK set,
\* RECHECK is cleared and gprs_netreg_update is re-run, issuing
\* set_attached(want) if want still differs from driver_attached.
C4_AsStated ==
  \A c \in ChainEnds :
    LET mid == StatusHandled(c.s, c.error, c.status)
        fin == registration_status_cb(c.s, c.error, c.status)
        want == WantAttach(mid.g)
    IN "RECHECK" \in c.s.g.flags =>
         /\ "RECHECK" \notin fin.g.flags
         /\ want # mid.g.driver_attached =>
              fin.attq = Append(mid.attq, SetAttachedReq(want))

\* C6 (amended): a context's Active request is accepted (the context's
\* pending request set) only in a state where ATTACHING is clear and the
\* manager has no pending request; the manager's pending request itself
\* may be set together with ATTACHING.
C6_ActiveAccepted ==
  [][\A p \in Pids :
       pri[p].pending = "none" /\ pri'[p].pending # "none" =>
         "ATTACHING" \notin gprs.flags /\ gprs.pending = "none"]_vars

\* an activation has been accepted and is in flight
C6_Witness ==
  \E p \in Live :
    /\ pri[p].pending = "activate"
    /\ \E r \in reqs : r.kind = "activate" /\ r.ctx = p
    /\ out = <<>>

\* C6 as stated: ATTACHING and the manager's pending request are never
\* both set.
C6_AsStated == ~("ATTACHING" \in gprs.flags /\ gprs.pending # "none")

\* C7 (amended): a change of the Suspended property is signalled only while
\* attached = true; the suspended flag itself may be true while detached.
C7_SuspendedSignalled ==
  (\E v \in BOOLEAN : Signalled("manager", "Suspended", v)) => gprs.attached

\* the attached manager has just been suspended and said so
C7_Witness ==
  /\ gprs.attached /\ gprs.suspended
  /\ Signalled("manager", "Suspended", TRUE)

\* C7 as stated: suspended = true implies attached = true.
C7_AsStated == gprs.suspended => gprs.attached

\* the step ends with a set_attached(false) it has issued: ATTACHING is
\* clear whenever the attached state is computed
DetachIssued ==
  /\ "ATTACHING" \in gprs'.flags /\ attq' # <<>>
  /\ attq'[Len(attq')] = SetAttachedReq(FALSE)

NoPending(p) == gprs.pending = "none" /\ pri[p].pending = "none"

\* C9 (amended): SetProperty(Active, v) on a context is rejected with busy
\* if the manager or the context has a pending request; otherwise it
\* succeeds at once, changing nothing, if the context's active already
\* equals v; otherwise it is rejected with not-attached if v is true and
\* attached = false; otherwise with attach-in-progress if ATTACHING is set.
\* A rejected request issues no driver call and changes no state.
C9_Rejections ==
  \A p \in Live, v \in BOOLEAN :
    LET s == pri_set_property_active(Cur, p, v)
        req == <<"pri_set_property", p>>
    IN /\ ~NoPending(p) => Rejected(s, req, "busy")
       /\ NoPending(p) /\ pri[p].active = v => Rejected(s, req, "ok")
       /\ NoPending(p) /\ pri[p].active # v /\ v /\ ~gprs.attached =>
            Rejected(s, req, "not_attached")
       /\ NoPending(p) /\ pri[p].active # v /\ ~(v /\ ~gprs.attached)
          /\ "ATTACHING" \in gprs.flags =>
            Rejected(s, req, "attach_in_progress")

\* the second activation of a context has been answered busy and the
\* first one's activate_primary is the only one in flight
C9_Witness ==
  \E p \in Live :
    /\ out = <<<<"reply", <<"pri_set_property", p>>, "busy">>>>
    /\ pri[p].pending = "activate"
    /\ Cardinality({r \in reqs : r.kind = "activate" /\ r.ctx = p}) = 1

\* C9 as stated: busy if the manager or the context has a pending request,
\* attach-in-progress if ATTACHING is set, not-attached if attached = false
\* and v is true (each rule read as holding when no other applies).
C9_AsStated ==
  \A p \in Live, v \in BOOLEAN :
    LET s == pri_set_property_active(Cur, p, v)
        req == <<"pri_set_property", p>>
    IN /\ ~NoPending(p) => Rejected(s, req, "busy")
       /\ NoPending(p) /\ "ATTACHING" \in gprs.flags /\ ~(v /\ ~gprs.attached) =>
            Rejected(s, req, "attach_in_progress")
       /\ NoPending(p) /\ "ATTACHING" \notin gprs.flags /\ v /\ ~gprs.attached =>
            Rejected(s, req, "not_attached")

CtxPending == \E p \in Live : pri[p].pending # "none"

\* the busy rule of the manager's requests other than AddContext
BusyPolicy ==
  /\ gprs.pending # "none" =>
       /\ \A property \in {"Powered", "RoamingAllowed"}, v \in BOOLEAN :
            Rejected(gprs_set_property(Cur, property, v),
                     <<"SetProperty", property>>, "busy")
       /\ \A p \in Pids :
            Rejected(gprs_remove_context(Cur, p), <<"RemoveContext">>, "busy")
  /\ gprs.pending # "none" \/ CtxPending =>
       /\ Rejected(gprs_deactivate_all(Cur), <<"DeactivateAll">>, "busy")
       /\ \A aps \in ProvisionInputs :
            Rejected(gprs_reset_contexts(Cur, aps), <<"ResetContexts">>, "busy")

\* C10 (amended): SetProperty, RemoveContext, DeactivateAll and
\* ResetContexts are rejected with busy while the manager's pending request
\* is set, DeactivateAll and ResetContexts also while any context has a
\* pending request, and a rejected request changes no state. AddContext is
\* not under the rule: it is served while the manager's pending request is
\* set, adding the context unless used_pids is full.
C10_BusyPolicy ==
  /\ BusyPolicy
  /\ \A type \in TypeInputs :
       LET s == gprs_add_context(Cur, type)
       IN IF NextPid(gprs) > MaxContexts
          THEN Rejected(s, <<"AddContext">>, "failed")
          ELSE /\ s.list = Append(contexts, NextPid(gprs))
               /\ s.out[1] = <<"reply", <<"AddContext">>, "ok">>

\* a RemoveContext is pending and a further request has been answered busy
C10_Witness ==
  /\ gprs.pending = "remove"
  /\ \E r \in reqs : r.kind = "deact_remove"
  /\ out \in {<<<<"reply", <<"RemoveContext">>, "busy">>>>,
              <<<<"reply", <<"DeactivateAll">>, "busy">>>>}

\* C10 as stated: every manager-level request, AddContext too, is rejected
\* with busy while the manager's pending request is set.
C10_AsStated ==
  /\ BusyPolicy
  /\ gprs.pending # "none" =>
       \A type \in TypeInputs :
         Rejected(gprs_add_context(Cur, type), <<"AddContext">>, "busy")

\* the oldest attach request of s is answered
Answered(s) == [s EXCEPT !.attq = Tail(@)]

Count(seq, x) == Cardinality({i \in 1 .. Len(seq) : seq[i] = x})

\* detached and idle, with the cold-attach preferences
ColdDetached ==
  /\ ~crashed
  /\ ~gprs.attached /\ ~gprs.driver_attached
  /\ gprs.flags = {} /\ attq = <<>>
  /\ gprs.powered /\ ~gprs.roaming_allowed
  /\ gprs.netreg_status # "registered"
  /\ ~have_active_contexts(Cur)

\* the network reports registered on technology tech
ReportsRegistered(tech) ==
  IF gprs.netreg THEN netreg_status_changed(Cur, "registered", tech)
  ELSE netreg_watch(Cur, "registered", tech)

\* the driver accepts the set_attached of s and confirms registered: by
\* the attached_status query, or without one by a packet status report
ConfirmsRegistered(s) ==
  LET s2 == gprs_attach_callback(Answered(s), FALSE)
  IN IF gprs.has_attached_status
     THEN registration_status_cb(Answered(s2), FALSE, "registered")
     ELSE ofono_gprs_status_notify(s2, "registered")

ColdAttached(s1) ==
  LET s3 == ConfirmsRegistered(s1)
  IN /\ s1.attq = <<SetAttachedReq(TRUE)>>
     /\ "ATTACHING" \in s1.g.flags /\ s1.g.driver_attached
     /\ ~s1.g.attached
     /\ s3.attq = <<>> /\ s3.g.flags = {}
     /\ s3.g.attached
     /\ Count(s3.out, <<"signal", "manager", "Attached", TRUE>>) = 1
     /\ Count(s3.out, <<"signal", "manager", "Attached", FALSE>>) = 0

\* C11 (amended): cold attach. Starting detached and idle with powered =
\* true and roaming_allowed = false, when the network reports registered
\* and the technology is not LTE with a read_settings binding, exactly one
\* set_attached(true) is issued, and once the driver confirms registered
\* attached is true and PropertyChanged(Attached, true) has been emitted
\* exactly once. On LTE with a read_settings binding no set_attached is
\* issued and attached stays false.
C11_ColdAttach ==
  ColdDetached =>
    \A tech \in TechInputs :
      LET s1 == ReportsRegistered(tech)
      IN IF on_lte(s1)
         THEN s1.attq = <<>> /\ ~s1.g.attached /\ s1.out = <<>>
         ELSE ColdAttached(s1)

\* the cold attach has run to its end: one Attached signal, nothing in
\* flight
C11_Witness ==
  /\ gprs.attached /\ gprs.driver_attached
  /\ gprs.netreg_status = "registered" /\ gprs.status = "registered"
  /\ gprs.technology = "gsm"
  /\ attq = <<>> /\ gprs.flags = {}
  /\ out = <<<<"signal", "manager", "Attached", TRUE>>>>

\* C11 as stated: the cold attach issues exactly one set_attached(true) and
\* ends attached, whatever the technology.
C11_AsStated ==
  ColdDetached =>
    \A tech \in TechInputs : ColdAttached(ReportsRegistered(tech))

\* attached and idle, roaming not allowed
AttachedNoRoaming ==
  /\ ~crashed
  /\ gprs.attached /\ gprs.driver_attached
  /\ gprs.flags = {} /\ attq = <<>>
  /\ ~gprs.roaming_allowed

\* the driver carries out the set_attached(false) of s and, asked for the
\* status, answers not-registered
ConfirmsDetached(s) ==
  LET s2 == gprs_attach_callback(Answered(s), FALSE)
  IN IF gprs.has_attached_status
     THEN registration_status_cb(Answered(s2), FALSE, "not-registered")
     ELSE s2

\* s1 has issued the detach, and Attached is false once it is carried out
GateCloses(s1) ==
  /\ s1.attq = <<SetAttachedReq(FALSE)>>
  /\ ~ConfirmsDetached(s1).g.attached

\* C12: roaming gate. With roaming_allowed = false, when the status turns
\* to roaming while attached (the netreg status off LTE auto-attach, or the
\* packet-domain status), set_attached(false) is issued and, the detach
\* carried out, Attached is false. The code does not keep this for a
\* packet-domain report to a driver without attached_status.
C12_RoamingGate ==
  AttachedNoRoaming =>
    /\ GateCloses(ofono_gprs_status_notify(Cur, "roaming"))
    /\ gprs.netreg /\ gprs.netreg_status # "roaming" =>
         \A tech \in TechInputs :
           LET s1 == netreg_status_changed(Cur, "roaming", tech)
           IN ~on_lte(s1) => GateCloses(s1)

\* the user activations in flight
UserActivations ==
  {r \in reqs : r.kind = "activate" /\ ~r.stale /\ pri[r.ctx].live
                /\ pri[r.ctx].pending = "activate"}

\* C13: a user activation that fails in the driver leaves the context
\* inactive and replies with an error: cid = 0, the cid out of used_cids,
\* the binding the activation was issued on not in use and unreferenced,
\* its settings blocks freed, the context's pending request cleared. The
\* code does not keep this once an auto-activation has rebound the context
\* while its activation was in flight (C2, C5).
C13_FailedActivation ==
  ~crashed =>
    \A r \in UserActivations :
      LET p == r.ctx
          s == pri_activate_callback(Done(r), p, TRUE)
      IN /\ ~s.crash
         /\ ~s.pri[p].active
         /\ s.pri[p].pending = "none"
         /\ s.out = <<<<"reply", <<"context", p>>, "failed">>>>
         /\ s.pri[p].cid = 0
         /\ pri[p].cid \notin s.g.used_cids
         /\ ~s.gc[r.gc].inuse
         /\ \A q \in Pids : s.pri[q].live => s.pri[q].context_driver # r.gc
         /\ ~s.gc[r.gc].ipv4 /\ ~s.gc[r.gc].ipv6

\* C14: when the driver fails the deactivation of a RemoveContext, the
\* context stays as it was: active, in the list, with its cid, binding and
\* configuration; RemoveContext is answered failed and the manager's
\* pending request is cleared.
C14_FailedRemove ==
  ~crashed =>
    \A r \in reqs :
      r.kind = "deact_remove" =>
        LET p == r.ctx
            s == gprs_deactivate_for_remove(Done(r), p, TRUE)
        IN /\ gprs.pending = "remove"
           /\ pri[p].live /\ pri[p].active
           /\ ~s.crash
           /\ s.pri[p].active
           /\ s.pri = pri /\ s.list = contexts /\ s.gc = gc
           /\ \E i \in 1 .. Len(s.list) : s.list[i] = p
           /\ s.g = [gprs EXCEPT !.pending = "none"]
           /\ s.out = <<<<"reply", <<"RemoveContext">>, "failed">>>>

C14_Witness ==
  /\ ~crashed
  /\ out = <<<<"reply", <<"RemoveContext">>, "failed">>>>
  /\ gprs.pending = "none"
  /\ \E i \in 1 .. Len(contexts) :
       /\ pri[contexts[i]].active
       /\ pri[contexts[i]].cid \in gprs.used_cids
       /\ gc[pri[contexts[i]].context_driver].inuse

\* position of a context in the manager's list
ListPos(p) == SetMin({i \in 1 .. Len(contexts) : contexts[i] = p})

\* C15: DeactivateAll stops at the first deactivation the driver fails and
\* answers failed: the contexts before the failing one are inactive and stay
\* so, the failing context and the active contexts after it stay active, no
\* further deactivate_primary is issued, and the manager's pending request
\* is cleared.
C15_DeactivateAllStops ==
  ~crashed =>
    \A r \in reqs :
      r.kind = "deact_all" =>
        LET p == r.ctx
            s == gprs_deactivate_for_all(Done(r), p, TRUE)
        IN /\ gprs.pending = "deactivate_all"
           /\ pri[p].live /\ pri[p].active
           /\ \A i \in 1 .. Len(contexts) :
                i < ListPos(p) => ~pri[contexts[i]].active
           /\ ~s.crash /\ ~s.over
           /\ \A i \in 1 .. Len(contexts) :
                s.pri[contexts[i]].active = pri[contexts[i]].active
           /\ s.pri = pri /\ s.list = contexts /\ s.gc = gc
           /\ s.reqs = reqs \ {r}
           /\ s.g = [gprs EXCEPT !.pending = "none"]
           /\ s.out = <<<<"reply", <<"DeactivateAll">>, "failed">>>>

\* the second deactivation of a DeactivateAll has failed: the first context
\* is inactive and unbound, the second is still active
C15_Witness ==
  /\ ~crashed
  /\ out = <<<<"reply", <<"DeactivateAll">>, "failed">>>>
  /\ gprs.pending = "none"
  /\ reqs = {}
  /\ Len(contexts) = 2
  /\ ~pri[contexts[1]].active /\ pri[contexts[1]].context_driver = 0
  /\ pri[contexts[2]].active

\* the contexts bound to binding d
BoundTo(d) == {p \in Pids : pri[p].live /\ pri[p].context_driver = d}

\* a RemoveContext or DeactivateAll waits for an answer of binding d
ManagerWaitsOn(d) ==
  /\ gprs.pending \in {"remove", "deactivate_all"}
  /\ \E r \in reqs : r.gc = d /\ r.kind \in {"deact_remove", "deact_all"}

\* C16: when a binding is unregistered, every context bound to it, active
\* or with an activation or auto-activation in flight, is released (cid out
\* of used_cids, context_driver cleared, Active = false signalled if it was
\* active), every pending reply that depends on the binding, per-context
\* and manager-level, is completed with failed, and the binding leaves the
\* manager's list.
C16_BindingLost ==
  ~crashed =>
    \A d \in Gcs :
      gc[d].reg =>
        LET s == gprs_context_unregister(Cur, d)
        IN /\ ~s.crash
           /\ ~s.gc[d].reg
           /\ \A p \in BoundTo(d) :
                /\ s.pri[p].context_driver = 0
                /\ s.pri[p].cid = 0
                /\ pri[p].cid \notin s.g.used_cids
                /\ ~s.pri[p].active
                /\ pri[p].active =>
                     \E i \in 1 .. Len(s.out) :
                       s.out[i] = <<"signal", <<"context", p>>, "Active", FALSE>>
                /\ s.pri[p].pending = "none"
                /\ pri[p].pending # "none" =>
                     \E i \in 1 .. Len(s.out) :
                       s.out[i] = <<"reply", <<"context", p>>, "failed">>
           /\ ManagerWaitsOn(d) =>
                /\ s.g.pending = "none"
                /\ \E i \in 1 .. Len(s.out) :
                     /\ s.out[i][1] = "reply"
                     /\ s.out[i][2] \in {<<"RemoveContext">>, <<"DeactivateAll">>}
                     /\ s.out[i][3] = "failed"

\* C17: while a context is active, SetProperty of any property other than
\* Active is rejected with in-use and changes neither the context's
\* configuration nor anything else.
C17_ActiveReadOnly ==
  ~crashed =>
    \A p \in Pids :
      pri[p].live /\ pri[p].active =>
        \A property \in ConfigProperties :
          \A value \in ValuesOf(property) :
            Rejected(pri_set_property(Cur, p, property, value),
                     <<"pri_set_property", p>>, "in_use")

C17_Witness ==
  /\ ~crashed
  /\ out = <<<<"reply", <<"pri_set_property", 1>>, "in_use">>>>
  /\ pri[1].active
  /\ pri[1].apn = <<"a">> /\ pri[1].type = "mms" /\ pri[1].proto = "ipv6"

\* C18: ResetContexts succeeds only when powered = false and no context is
\* active; otherwise it is rejected with not-allowed and leaves the context
\* list unchanged, and a busy manager or context takes precedence over
\* not-allowed. After a successful ResetContexts the list is non-empty and
\* every context in it is inactive.
C18_ResetContexts ==
  ~crashed =>
    \A aps \in ProvisionInputs :
      LET s == gprs_reset_contexts(Cur, aps)
          msg == <<"ResetContexts">>
      IN IF gprs.pending # "none" \/ CtxPending
         THEN Rejected(s, msg, "busy")
         ELSE IF gprs.powered \/ have_active_contexts(Cur)
         THEN Rejected(s, msg, "not_allowed")
         ELSE /\ ~s.crash
              /\ s.out[Len(s.out)] = <<"reply", msg, "ok">>
              /\ s.list # <<>>
              /\ \A i \in 1 .. Len(s.list) :
                   /\ s.pri[s.list[i]].live
                   /\ ~s.pri[s.list[i]].active
              /\ \A p \in Pids : s.pri[p].live => \E i \in 1 .. Len(s.list) : s.list[i] = p

\* a ResetContexts with nothing to provision has replaced two contexts by
\* the default one
C18_Witness ==
  /\ ~crashed
  /\ ~gprs.powered
  /\ out = << <<"ContextRemoved", 1>>, <<"ContextRemoved", 2>>,
              <<"ContextAdded", 1>>, <<"reply", <<"ResetContexts">>, "ok">> >>
  /\ contexts = <<1>>
  /\ ~pri[1].active /\ pri[1].apn = <<>>

\* the id the next new context is to get: the least unused id from the last
\* id given on, else the least unused id
ExpectedPid ==
  LET free == Pids \ gprs.used_pids
      up == {id \in free : id >= gprs.last_context_id}
  IN IF free = {} THEN MaxContexts + 1
     ELSE IF up # {} THEN SetMin(up) ELSE SetMin(free)

\* the contexts a step has created
Created(s) == {s.list[i] : i \in 1 .. Len(s.list)} \ Live

\* C19 (amended): a context created by AddContext or by an auto-activation
\* gets the least unused path id that is not below the id given last,
\* or the least unused id when there is none (and after ResetContexts,
\* which forgets the id given last, so that provisioning starts from the
\* least id); AddContext fails when used_pids is full.
C19_PathId ==
  ~crashed =>
    /\ \A type \in TypeInputs :
         LET s == gprs_add_context(Cur, type)
         IN IF gprs.used_pids = Pids
            THEN Rejected(s, <<"AddContext">>, "failed")
            ELSE /\ Created(s) = {ExpectedPid}
                 /\ s.g.used_pids = gprs.used_pids \cup {ExpectedPid}
                 /\ s.out = << <<"reply", <<"AddContext">>, "ok">>,
                               <<"ContextAdded", ExpectedPid>> >>
    /\ \A cid \in Cids, apn \in ApnInputs :
         LET s == ofono_gprs_cid_activated(Cur, cid, apn)
         IN Created(s) \subseteq {ExpectedPid}
    /\ \A aps \in ProvisionInputs :
         LET s == gprs_reset_contexts(Cur, aps)
         IN s.out[Len(s.out)] = <<"reply", <<"ResetContexts">>, "ok">> =>
              s.list = <<1>> /\ s.g.used_pids = {1}

\* both contexts were removed and AddContext has given id 2, not 1
C19_Witness ==
  /\ ~crashed
  /\ out = << <<"reply", <<"AddContext">>, "ok">>, <<"ContextAdded", 2>> >>
  /\ contexts = <<2>>
  /\ gprs.used_pids = {2}

\* C19 as stated: the id of a new context is always the minimum unused id
C19_AsStated ==
  ~crashed =>
    \A type \in TypeInputs :
      LET s == gprs_add_context(Cur, type)
      IN IF gprs.used_pids = Pids
         THEN Rejected(s, <<"AddContext">>, "failed")
         ELSE Created(s) = {SetMin(Pids \ gprs.used_pids)}

\* a set_attached of a driver without attached_status is about to complete
SyntheticCompletion ==
  ~crashed /\ ~gprs.has_attached_status
  /\ attq # <<>> /\ Head(attq).kind = "set_attached"

\* the Attached signals among the outputs of a step
AttachedSignals(s) ==
  SelectSeq(s.out, LAMBDA o : o[1] = "signal" /\ o[2] = "manager"
                               /\ o[3] = "Attached")

Keys(dict) == {dict[i][1] : i \in 1 .. Len(dict)}

\* a step's outputs hold a PropertyChanged of the manager's property prop
Changed(s, prop) ==
  \E i \in 1 .. Len(s.out) :
    s.out[i][1] = "signal" /\ s.out[i][2] = "manager" /\ s.out[i][3] = prop

\* Suspended is in GetProperties, and signalled by the suspend handlers,
\* only while attached
SuspendedExposure ==
  /\ "Suspended" \in Keys(gprs_get_properties(Cur)) => gprs.attached
  /\ \A cause \in SuspendCauses :
       Changed(ofono_gprs_suspend_notify(Cur, cause), "Suspended") => gprs.attached
  /\ Changed(ofono_gprs_resume_notify(Cur), "Suspended") => gprs.attached
  /\ Changed(suspend_timeout(Cur), "Suspended") => gprs.attached

\* C21: the manager exposes Bearer, in GetProperties and as PropertyChanged,
\* only while attached = true, and exposes Suspended only while
\* attached = true.
C21_Exposure ==
  ~crashed =>
    /\ "Bearer" \in Keys(gprs_get_properties(Cur)) => gprs.attached
    /\ \A bearer \in BearerInputs :
         Changed(ofono_gprs_bearer_notify(Cur, bearer), "Bearer") => gprs.attached
    /\ SuspendedExposure

\* the context that holds cid in state s, MaxContexts + 1 when there is none
CtxOfCid(s, cid) ==
  LET m == {i \in 1 .. Len(s.list) : s.pri[s.list[i]].cid = cid}
  IN IF m = {} THEN MaxContexts + 1 ELSE s.list[SetMin(m)]

HasSignal(s, obj, prop, val) ==
  \E i \in 1 .. Len(s.out) :
    LET o == s.out[i]
    IN /\ Len(o) = 4 /\ o[1] = "signal"
       /\ o[3] = prop /\ o[2] = obj /\ o[4] = val

\* on LTE with a read_settings binding free, the modem can report cid
\* as activated
PdnCanActivate(cid) ==
  /\ ~crashed /\ on_lte(Cur)
  /\ cid \notin gprs.used_cids
  /\ \E d \in Gcs : gc[d].reg /\ ~gc[d].inuse /\ gc[d].read_settings
  /\ \A q \in reqs : q.kind # "read_settings"
  /\ Cardinality(reqs) < MaxReqs

Reattaches(s) == Cardinality({i \in 1 .. Len(s.out) : s.out[i] = Reattach})

\* a Telit modem that the core asked to attach and that has no re-attach
\* under way
TelitAttached ==
  /\ ~crashed /\ gprs.driver_data.vendor = "telit"
  /\ gprs.driver_data.attached /\ ~gprs.driver_data.telit_try_reattach

\* the spurious detach, +CGREG: 0 and +CGEV: NW DETACH, and the delayed
\* +CGREG: 1
SpuriousDetach(s) == cgev_notify(cgreg_notify(s, "not-registered"), "NW DETACH")
Reregistered(s) == cgreg_notify(s, "registered")

\* the spurious detach is answered by one re-attach and hidden from the
\* core; the re-register issues none
OneReattach ==
  LET s1 == cgreg_notify(Cur, "not-registered")
      s2 == SpuriousDetach(Cur)
      s3 == Reregistered(s2)
  IN /\ s1.out = <<Reattach>>
     /\ s2 = [Cur EXCEPT !.out = <<Reattach>>,
                         !.g.driver_data.telit_try_reattach = TRUE]
     /\ Reattaches(s3) = 1
     /\ ~s3.g.driver_data.telit_try_reattach

\* C23 (amended): on Telit a spurious detach followed by a delayed
\* re-register gets exactly one silent re-attach, issued at the detach. A
\* second +CGREG: 0 before the re-register issues no re-attach and is
\* reported to the core. After the re-register the quirk is armed again: a
\* further spurious detach issues one more re-attach if the driver still
\* holds the modem attached.
C23_TelitReattach ==
  TelitAttached =>
    /\ OneReattach
    /\ LET t == cgreg_notify([SpuriousDetach(Cur) EXCEPT !.out = <<>>],
                             "not-registered")
       IN /\ Reattaches(t) = 0
          /\ t.g.status = "not-registered"
          /\ ~t.g.driver_data.telit_try_reattach
    /\ LET s3 == [Reregistered(SpuriousDetach(Cur)) EXCEPT !.out = <<>>]
           s4 == SpuriousDetach(s3)
       IN Reattaches(s4) = IF s3.g.driver_data.attached THEN 1 ELSE 0

\* a Telit modem's detach has just been answered by the silent re-attach
C23_Witness ==
  /\ ~crashed /\ gprs.driver_data.vendor = "telit"
  /\ gprs.driver_data.attached /\ gprs.driver_data.telit_try_reattach
  /\ gprs.attached
  /\ out = <<Reattach>>

\* C23 as stated: one re-attach for the spurious detach and its
\* re-register, and none for a second spurious detach after it
C23_AsStated ==
  TelitAttached =>
    /\ OneReattach
    /\ LET s3 == [Reregistered(SpuriousDetach(Cur)) EXCEPT !.out = <<>>]
       IN Reattaches(SpuriousDetach(s3)) = 0

\* C24: a suspend_notify with cause detached, call or no-coverage sets
\* suspended at once and cancels the debounce timer; a cause of signalling
\* or unknown only arms the timer, and suspended becomes true when it
\* fires; resume_notify cancels the timer and clears suspended, so that
\* after a resume the timer does not fire and suspended stays false until a
\* new suspend_notify.
C24_Debounce ==
  ~crashed =>
    /\ \A cause \in {"detached", "call", "no-coverage"} :
         LET s == ofono_gprs_suspend_notify(Cur, cause)
         IN s.g.suspended /\ ~s.g.suspend_timeout
    /\ \A cause \in {"signalling", "unknown"} :
         LET s == ofono_gprs_suspend_notify(Cur, cause)
             f == suspend_timeout(s)
         IN /\ s = [Cur EXCEPT !.g.suspend_timeout = TRUE]
            /\ f.g.suspended /\ ~f.g.suspend_timeout
    /\ LET s == ofono_gprs_resume_notify(Cur)
       IN /\ ~s.g.suspended /\ ~s.g.suspend_timeout
          /\ [s EXCEPT !.g.suspended = gprs.suspended,
                       !.g.suspend_timeout = gprs.suspend_timeout,
                       !.out = <<>>] = Cur
    /\ gprs.suspend_timeout \/ ~ENABLED SuspendTimeout

\* a resume has just cleared the suspension of an attached manager
C24_Witness ==
  /\ ~crashed /\ gprs.attached
  /\ ~gprs.suspended /\ ~gprs.suspend_timeout
  /\ HasSignal([out |-> out], "manager", "Suspended", FALSE)

\* the common Bearer enum, PACKET_BEARER_NONE .. PACKET_BEARER_EPS
BearerEnum == 0 .. 7

\* the codes each dialect defines
ValidCodes(vendor) ==
  CASE vendor = "huawei" -> {1, 2, 3, 4, 5, 6, 7, 9}
    [] vendor = "telit" -> 0 .. 4
    [] vendor = "simcom" -> 0 .. 8
    [] vendor = "ublox" -> 0 .. 9
    [] OTHER -> 0 .. 7

\* C25: for each vendor dialect the mapping from the vendor's code to the
\* common Bearer enum gives an enum value for every code, and 0 (none) for
\* every code the dialect does not define, so that bearer_notify is never
\* called with a value outside the enum.
C25_BearerMapping ==
  ~crashed =>
    \A code \in CodeInputs :
      LET s == mode_notify(Cur, code)
      IN /\ s.g.bearer \in BearerEnum
         /\ code \notin ValidCodes(gprs.driver_data.vendor) => s.g.bearer = 0

\* C26: the stored settings round-trip: for every context the core made,
\* writing its settings group and loading it back yields a context with the
\* same type, protocol and access point name, and the group is not dropped
\* as invalid.
C26_RoundTrip ==
  \A p \in Live :
    LET r == load_context(write_context_settings(pri[p]))
    IN /\ r.ok
       /\ r.ctx.type = pri[p].type
       /\ r.ctx.proto = pri[p].proto
       /\ r.ctx.apn = pri[p].apn

\* the same, for every context but those of type initial attach
C26_RoundTripNotIa ==
  \A p \in Live :
    pri[p].type # "ia" =>
      LET r == load_context(write_context_settings(pri[p]))
      IN /\ r.ok
         /\ r.ctx.type = pri[p].type
         /\ r.ctx.proto = pri[p].proto
         /\ r.ctx.apn = pri[p].apn

\* what the manager wants, from the inputs of the moment
Want ==
  /\ gprs.powered
  /\ \/ gprs.netreg_status \in {"registered", "registered-sms-eutran"}
     \/ /\ gprs.roaming_allowed
        /\ gprs.netreg_status \in {"roaming", "roaming-sms-eutran"}

\* the update asked the driver for something
IssuesAttach(s) == s.attq # attq

\* C27: off LTE, whenever gprs_netreg_update issues set_attached(v), v is
\* what the manager wants from the current inputs (powered, and registered
\* or roaming with roaming allowed), driver_attached is set to v as the
\* request is issued, and nothing is issued when the wanted value already
\* equals driver_attached or no netreg status has been observed yet.
C27_NetregUpdate ==
  (~crashed /\ ~on_lte(Cur)) =>
    LET s == gprs_netreg_update(Cur)
    IN /\ (IssuesAttach(s) =>
             /\ s.attq = Append(attq, [kind |-> "set_attached", val |-> Want])
             /\ s.g.driver_attached = Want)
       /\ (Want = gprs.driver_attached \/ gprs.netreg_status = "unset") =>
             /\ ~IssuesAttach(s)
             /\ ~s.over

C27_Witness ==
  /\ ~crashed /\ ~on_lte(Cur)
  /\ gprs.netreg_status = "roaming" /\ gprs.roaming_allowed /\ ~gprs.powered
  /\ gprs.driver_attached
  /\ IssuesAttach(gprs_netreg_update(Cur))

\* the state as it would be had no attach been deferred
Undeferred(s) == [s EXCEPT !.g.flags = @ \ {"ATTACHED_UPDATE"}]

Deferred == "ATTACHED_UPDATE" \in gprs.flags

\* the completion of SetProperty(Active, false), and the modem's own
\* deactivation of an active context, clear the flag and re-run the update
C28_UserOrModem ==
  (~crashed /\ Deferred) =>
    /\ \A r \in reqs :
         r.kind = "deactivate" =>
           pri_deactivate_callback(Done(r), r.ctx, FALSE)
             = gprs_attached_update(
                 pri_deactivate_callback(Undeferred(Done(r)), r.ctx, FALSE))
    /\ \A cid \in Cids :
         (\E p \in Live : pri[p].active /\ pri[p].cid = cid) =>
           ofono_gprs_context_deactivated(Cur, cid)
             = gprs_attached_update(
                 ofono_gprs_context_deactivated(Undeferred(Cur), cid))

\* C28: every successful context deactivation that completes while
\* ATTACHED_UPDATE is set, whether SetProperty(Active, false), RemoveContext,
\* DeactivateAll or the modem caused it, clears ATTACHED_UPDATE and re-runs
\* the attached update.
C28_DeferredAttach ==
  (~crashed /\ Deferred) =>
    /\ C28_UserOrModem
    /\ \A r \in reqs :
         /\ r.kind = "deact_remove" =>
              gprs_deactivate_for_remove(Done(r), r.ctx, FALSE)
                = gprs_attached_update(
                    gprs_deactivate_for_remove(Undeferred(Done(r)), r.ctx, FALSE))
         /\ r.kind = "deact_all" =>
              gprs_deactivate_for_all(Done(r), r.ctx, FALSE)
                = gprs_attached_update(
                    gprs_deactivate_for_all(Undeferred(Done(r)), r.ctx, FALSE))

\* an attach is deferred while a deactivation of each kind is in flight
C28_Reached ==
  /\ ~crashed /\ Deferred
  /\ \E r \in reqs : r.kind = "deactivate"

C28_ReachedRemove ==
  /\ ~crashed /\ Deferred
  /\ \E r \in reqs : r.kind = "deact_remove"

ActivePos(s) == {i \in 1 .. Len(s.list) : s.pri[s.list[i]].active}

DeactAll(R) == {r \in R : r.kind = "deact_all"}

Replies(s) == {i \in 1 .. Len(s.out) : s.out[i][1] = "reply"}

\* what a step of DeactivateAll leaves, from the state s0 before it: one
\* deactivation issued for the first active context of the list and no
\* reply, or, with no context active, one reply of success and the
\* manager's pending request cleared
SerialStep(s0, s) ==
  IF ActivePos(s) # {}
  THEN /\ DeactAll(s.reqs) \ DeactAll(s0.reqs)
            = {Req("deact_all", s.list[SetMin(ActivePos(s))],
                   s.pri[s.list[SetMin(ActivePos(s))]].context_driver)}
       /\ Cardinality(DeactAll(s.reqs)) = 1
       /\ Replies(s) = {}
       /\ s.g.pending = "deactivate_all"
  ELSE /\ DeactAll(s.reqs) = {}
       /\ Cardinality(Replies(s)) = 1
       /\ s.out[Len(s.out)] = <<"reply", <<"DeactivateAll">>, "ok">>
       /\ s.g.pending = "none"

C29_Serial ==
  ~crashed =>
    /\ Cardinality(DeactAll(reqs)) <= 1
    /\ (gprs.pending = "none" /\ \A p \in Live : pri[p].pending = "none") =>
         LET s == gprs_deactivate_all(Cur)
         IN s.over \/ SerialStep(Cur, s)
    /\ \A r \in DeactAll(reqs) :
         LET s == gprs_deactivate_for_all(Done(r), r.ctx, FALSE)
         IN s.over \/ SerialStep(Done(r), s)

DeactivateAllPending == gprs.pending = "deactivate_all"

DeactivateAllDone ==
  /\ \E i \in 1 .. Len(out) : out[i] = <<"reply", <<"DeactivateAll">>, "ok">>
  /\ \A p \in Live : ~pri[p].active
  /\ gprs.pending = "none"

\* C29: DeactivateAll deactivates the active contexts one at a time in list
\* order, with at most one deactivation outstanding, and, every driver
\* deactivation succeeding, it eventually replies success exactly once, with
\* no context of the list active and the manager's pending request cleared.
C29_DeactivateAll ==
  /\ []C29_Serial
  /\ DeactivateAllPending ~> DeactivateAllDone

\* the reply that follows the deactivation of the last of two contexts
C29_Witness ==
  /\ DeactivateAllDone
  /\ Cardinality(Live) = 2
  /\ \E p \in Live :
       HasSignal([out |-> out], <<"context", p>>, "Active", FALSE)

\* SetProperty(Active, true) on p passes every check before the assignment
ActivationAccepted(p) ==
  /\ gprs.pending = "none" /\ pri[p].pending = "none"
  /\ ~pri[p].active /\ gprs.attached /\ "ATTACHING" \notin gprs.flags

FreeCids == (1 .. MaxCid) \ gprs.used_cids

\* the bindings the context may take: unused, of the context's type or of
\* any type, with both activation operations
UsableBindings(p) ==
  {d \in Gcs : /\ gc[d].reg /\ ~gc[d].inuse
               /\ gc[d].type \in {"any", pri[p].type}
               /\ gc[d].activate /\ gc[d].deactivate}

\* C30: an accepted SetProperty(Active, true) on an inactive context takes
\* the least cid not in used_cids and an unused binding of the context's
\* type or of type any that implements activate_primary and
\* deactivate_primary; with no cid in range or no such binding the request
\* fails with an error and used_cids, every inuse flag and the context are
\* unchanged.
C30_Assign ==
  ~crashed =>
    \A p \in Live :
      ActivationAccepted(p) =>
        LET s == pri_set_property_active(Cur, p, TRUE)
            d == s.pri[p].context_driver
        IN IF FreeCids = {} \/ UsableBindings(p) = {}
           THEN Rejected(s, <<"pri_set_property", p>>, "not_implemented")
           ELSE \/ s.over
                \/ /\ s.pri[p].cid = SetMin(FreeCids)
                   /\ s.g.used_cids = gprs.used_cids \cup {SetMin(FreeCids)}
                   /\ d \in UsableBindings(p)
                   /\ s.gc[d].inuse
                   /\ \A e \in Gcs \ {d} : s.gc[e].inuse = gc[e].inuse
                   /\ Req("activate", p, d) \in s.reqs
                   /\ Replies(s) = {}

\* an activation under way that took the second cid and a typed binding
C30_Witness ==
  \E p \in Live :
    /\ pri[p].pending = "activate" /\ pri[p].cid = 2
    /\ pri[p].context_driver # 0
    /\ gc[pri[p].context_driver].type = "mms"

\* an accepted activation that finds no binding while a cid is free
C30_NoBinding ==
  \E p \in Live :
    ActivationAccepted(p) /\ FreeCids # {} /\ UsableBindings(p) = {}

\* the contexts whose non-empty APN is a prefix of apn, and those without APN
ApnMatches(apn) ==
  {p \in Live : pri[p].apn # <<>> /\ IsPrefix(pri[p].apn, apn)}

ApnEmpty == {p \in Live : pri[p].apn = <<>>}

\* the contexts that hold cid in state s
Holders(s, cid) == {p \in Pids : s.pri[p].live /\ s.pri[p].cid = cid}

\* C31: cid_activated(cid, apn) chooses a context whose non-empty APN is a
\* prefix of apn before any context with an empty APN, an empty-APN context
\* only if no APN matches, and creates a new internet context carrying apn
\* only if neither exists; for a cid already in used_cids it changes no state.
C31_Choice ==
  ~crashed =>
    \A cid \in Cids, apn \in ApnInputs :
      LET s == ofono_gprs_cid_activated(Cur, cid, apn)
      IN IF cid \in gprs.used_cids THEN s = Cur
         ELSE \A p \in Holders(s, cid) :
                /\ ApnMatches(apn) # {} => p \in ApnMatches(apn)
                /\ (ApnMatches(apn) = {} /\ ApnEmpty # {}) => p \in ApnEmpty
                /\ (ApnMatches(apn) = {} /\ ApnEmpty = {}) =>
                     /\ p \notin Live
                     /\ s.pri[p].type = "internet"
                     /\ s.pri[p].apn = apn

\* the choice as the list walk makes it: the first context of the list whose
\* APN, empty or not, is a prefix of apn
C31_FirstPrefix ==
  ~crashed =>
    \A cid \in Cids \ gprs.used_cids, apn \in ApnInputs :
      LET s == ofono_gprs_cid_activated(Cur, cid, apn)
          pre == {i \in 1 .. Len(contexts) : IsPrefix(pri[contexts[i]].apn, apn)}
      IN \A p \in Holders(s, cid) :
           IF pre # {} THEN p = contexts[SetMin(pre)]
           ELSE p \notin Live /\ s.pri[p].type = "internet" /\ s.pri[p].apn = apn

\* an empty-APN context ahead of a matching one in the list
C31_EmptyFirst ==
  /\ Len(contexts) = 2
  /\ pri[contexts[1]].apn = <<>> /\ pri[contexts[2]].apn = <<"a">>
  /\ gprs.used_cids = {}

ReadsDone == gprs.driver_data.cgdcont = 0

\* C32: every PDN activation the modem reported and has not reported
\* deactivated has had cid_activated invoked for its cid once the reads of
\* the context list have completed, also when a second activation arrived
\* before the read of the first completed (with a free context and binding
\* the invocation leaves the cid in used_cids); and a read that completes
\* after the cid's deactivation invokes cid_activated for no such cid.
C32_PdnEvents ==
  ~crashed =>
    /\ ReadsDone => gprs.driver_data.pdn \subseteq gprs.used_cids
    /\ ~ReadsDone =>
         \A listed \in SUBSET Cids :
           gprs.driver_data.pdn \subseteq listed =>
             LET s == at_cgdcont_read_cb(Cur, TRUE, listed, <<"a">>)
             IN s.g.used_cids \ gprs.used_cids \subseteq gprs.driver_data.pdn

\* the second half alone: no invocation for a cid that has been deactivated
C32_NoneAfterDeact ==
  (~crashed /\ ~ReadsDone) =>
    \A listed \in SUBSET Cids :
      gprs.driver_data.pdn \subseteq listed =>
        LET s == at_cgdcont_read_cb(Cur, TRUE, listed, <<"a">>)
        IN s.g.used_cids \ gprs.used_cids \subseteq gprs.driver_data.pdn

\* two activations reported before the first read completed
C32_TwoInFlight ==
  gprs.driver_data.cgdcont = 2 /\ gprs.driver_data.pdn = {1, 2}

AttachFlags(g) == g.flags \cap {"ATTACHING", "RECHECK"}

\* the change left the driver alone and attached follows the contexts
LteQuiet(s) ==
  /\ ~s.over /\ s.attq = attq
  /\ s.g.driver_attached = gprs.driver_attached
  /\ AttachFlags(s.g) = AttachFlags(gprs)
  /\ s.g.attached = have_active_contexts(s)

Idle == ~crashed /\ attq = <<>> /\ "ATTACHING" \notin gprs.flags

\* the request gprs_netreg_update issues fails: driver_attached is back at
\* the value it had before the request
C34_NetregPath ==
  Idle =>
    LET s1 == gprs_netreg_update(Cur)
    IN s1.attq # <<>> =>
         gprs_attach_callback(Answered(s1), TRUE).g.driver_attached
           = gprs.driver_attached

\* C34: after a set_attached request fails, driver_attached equals the value
\* it had immediately before the request was issued, for the requests of
\* gprs_netreg_update and for the detach request of status_notify; a failed
\* set_attached(false) never leaves driver_attached (and the public
\* attached) true when the manager was unpowered and not attached before.
C34_FailedRequest ==
  Idle =>
    /\ C34_NetregPath
    /\ \A status \in StatusInputs :
         LET s1 == ofono_gprs_status_notify(Cur, status)
             s2 == gprs_attach_callback(Answered(s1), TRUE)
         IN s1.attq # <<>> =>
              /\ s2.g.driver_attached = gprs.driver_attached
              /\ (~gprs.powered /\ ~gprs.driver_attached /\ ~gprs.attached) =>
                   ~s2.g.driver_attached /\ ~s2.g.attached

\* unpowered, detached and idle
C34_UnpoweredDetached ==
  Idle /\ ~gprs.powered /\ ~gprs.driver_attached /\ ~gprs.attached

\* the configuration of a context, as activate_primary is given it
Config(c) == [apn |-> c.apn, type |-> c.type, proto |-> c.proto]

Activating == {p \in Live : pri[p].pending = "activate"}

\* C35: while a context has a user activation outstanding, SetProperty
\* cannot change its configuration (access point name, type, protocol), so
\* the context becomes active with the configuration passed to
\* activate_primary.
C35_ConfigFrozen ==
  ~crashed =>
    \A p \in Activating :
      \A property \in ConfigProperties :
        \A value \in ValuesOf(property) :
          Config(pri_set_property(Cur, p, property, value).pri[p])
            = Config(pri[p])

\* the same while the context is active
C35_FrozenWhileActive ==
  ~crashed =>
    \A p \in Live :
      pri[p].active =>
        \A property \in ConfigProperties :
          \A value \in ValuesOf(property) :
            Config(pri_set_property(Cur, p, property, value).pri[p])
              = Config(pri[p])

\* the positions of the list whose context holds cid
ListHolders(cid) == {i \in 1 .. Len(contexts) : pri[contexts[i]].cid = cid}

\* C36: every member of used_cids is the cid of exactly one context of the
\* manager's list: no cid is leaked.
C36_NoCidLeak ==
  \A cid \in gprs.used_cids : Cardinality(ListHolders(cid)) = 1

\* C37: no two contexts of the manager's list have the same nonzero cid.
C37_DistinctCids ==
  \A i, j \in 1 .. Len(contexts) :
    (i # j /\ pri[contexts[i]].cid # 0) =>
      pri[contexts[i]].cid # pri[contexts[j]].cid

\* two contexts hold cids, one taken by the user's activation and one
\* chosen by the modem
C37_Witness ==
  /\ ~crashed
  /\ \E p, q \in Live :
       /\ p # q /\ pri[p].cid # 0 /\ pri[q].cid # 0
       /\ \E r \in reqs : r.kind = "read_settings" /\ r.ctx = p /\ ~r.stale
       /\ pri[q].active

\* the ids of the contexts of the manager's list
ListIds == {contexts[i] : i \in 1 .. Len(contexts)}

\* C38: after the settings load used_pids is exactly the set of ids of the
\* contexts of the manager's list, and those ids are pairwise distinct.
C38_UsedPids ==
  /\ gprs.used_pids = ListIds
  /\ \A i, j \in 1 .. Len(contexts) : i # j => contexts[i] # contexts[j]

\* a status report that neither sets driver_attached nor makes Attached true
KeepsDetached(status) ==
  LET s == ofono_gprs_status_notify(Cur, status)
  IN /\ s.g.driver_attached => gprs.driver_attached
     /\ s.g.attached => gprs.attached

\* C39: with roaming_allowed = false a packet-domain status report of
\* roaming or of roaming-sms-eutran never sets driver_attached and never
\* makes the Attached property true.
C39_RoamingReport ==
  ~gprs.roaming_allowed =>
    KeepsDetached("roaming") /\ KeepsDetached("roaming-sms-eutran")

\* the part of C39 about the plain roaming status
C39_PlainRoaming ==
  ~gprs.roaming_allowed => KeepsDetached("roaming")

\* no attach operation is under way
Quiet ==
  /\ gprs.flags \cap {"ATTACHING", "RECHECK"} = {}
  /\ \A i \in 1 .. Len(attq) : attq[i].kind # "set_attached"

\* a step of the user, of netreg, or an unsolicited report of the driver
Disturbance ==
  \/ NetregWatchRegistered(NetregInputs, {"gsm"})
  \/ NetregStatusChanged(NetregInputs, {"gsm"})
  \/ SetProperty({"Powered", "RoamingAllowed"})
  \/ StatusNotify(StatusInputs)

\* C40: once the preferences and the netreg status stop changing, and with
\* every driver request answered, the attach machine reaches and stays in a
\* state with ATTACHING and RECHECK clear and no set_attached outstanding.
C40_Settles ==
  (~[]<><<Disturbance>>_vars) => <>[]Quiet

\* the driver answers the status query with a registration the manager
\* has to refuse: not powered, or roaming while roaming is not allowed
RefusedAnswer ==
  /\ ~crashed /\ attq # <<>> /\ Head(attq).kind = "attached_status"
  /\ \E st \in StatusInputs \cap RegisteredSet :
       /\ ~gprs.powered \/ (~gprs.roaming_allowed /\ st = "roaming")
       /\ Commit(registration_status_cb(Dequeued, FALSE, st))

\* the machine does settle when the driver stops giving such answers
C40_SettlesUnlessRefused ==
  (~[]<><<Disturbance>>_vars /\ ~[]<><<RefusedAnswer>>_vars) => <>[]Quiet

====
